---- MODULE Spec2Model ----
(***************************************************************************)
(* Forecast upload cascade and template learning loop of CNC-FORECAST.     *)
(*                                                                         *)
(* Number representations                                                  *)
(*   similarity score / match_score : percent * 100   (93.75 -> 9375)      *)
(*   confidence                      : value * 10000   (0.8   -> 8000)     *)
(*   accuracy_rate                   : value * AccScale                    *)
(*   api_cost_saved                  : value * 100     (0.03  -> 3)        *)
(* Absent optional values (None, missing dict key) are written -1 for      *)
(* numbers, 0 for a template id and "absent" for strings.                  *)
(***************************************************************************)
EXTENDS Integers, Sequences, FiniteSets, TLC

VARIABLES
    templates,        \* excel_templates table: id -> row
    usages,           \* template_usage table, in insertion order
    metrics,          \* learning_metrics row of today
    pc,               \* position of the upload_forecast request in flight
    file,             \* the uploaded document of the request
    calls,            \* service functions invoked by the request, in order
    matched_template, \* id returned by find_matching_template (0 = None)
    match_score,      \* score returned by find_matching_template
    data,             \* local variable data of upload_forecast
    analysis_result,  \* return value of llm_service.analyze_excel_image
    response,         \* what the request returned to the caller
    started,          \* store as it was when the request started
    uploads,          \* number of upload_forecast requests so far
    sessions,         \* database sessions of concurrent record_usage callers
    book,             \* a workbook handed to a service function on its own
    book2,            \* the workbook it is compared with
    results,          \* what the service function returned
    snapshots         \* rows of the forecast_snapshots table

vars == <<templates, usages, metrics, pc, file, calls, matched_template,
          match_score, data, analysis_result, response, started, uploads,
          sessions, book, book2, results, snapshots>>

\* State used only where service functions are exercised on their own.
sideVars == <<sessions, book, book2, results, snapshots>>

reqVars == <<pc, file, calls, matched_template, match_score, data,
             analysis_result, response, started, uploads>>

-----------------------------------------------------------------------------
(* Bounds of the model *)

MaxTemplates == 2   \* rows of excel_templates in the store specifications
MaxUsage == 4       \* record_usage calls on one recipe in SpecLaw
SeedFailures == 3   \* failed usages the stored recipe of SpecStore has had
MaxStoreUsage == 1  \* further record_usage calls in SpecStore
MaxRecipes == 1     \* rows of excel_templates while uploads are processed
MaxUploads == 1     \* upload_forecast requests
MaxSessions == 2    \* database sessions calling record_usage concurrently
MaxDataRows == 2    \* data rows of the small workbooks
MaxAppend == 2      \* rows appended to a workbook

(* Program constants *)

FingerprintLen == 16
HighConfidenceScore == 9000
MinConfidenceScore == 7000
DefaultVerifiedConfidence == 8000
CncConfidence == 10000
CncCostSaved == 3
TemplateCostSaved == 2

\* accuracy_rate is a decimal fraction that gains one digit per record_usage;
\* AccScale keeps every value reachable within MaxUsage updates an integer.
AccScale == 100 * (10 ^ MaxUsage)
AutoDisableThreshold == (7 * AccScale) \div 10
InitialAccuracy == AccScale

-----------------------------------------------------------------------------
(* Documents *)

\* A signature as produced by generate_fingerprint: 16 hex digits.  Fp(k)
\* differs from Fp(0) in its first k digits.
Fp(k) == [i \in 1..FingerprintLen |-> IF i <= k THEN 1 ELSE 0]

Fingerprints == {Fp(0), Fp(1), Fp(5)}

\* Cell values of the one data row of a document (model "M1", process "CNC"),
\* one cell per period column.
Num(n) == [kind |-> "number", n |-> n]
Txt(s) == [kind |-> s, n |-> 0]

CellRows == { <<Num(0), Num(7)>>, <<Num(-2), Num(5)>>, <<Txt("inf")>>, <<Num(0)>> }

\* name_ok:  the file name ends in .xlsx or .xls
\* readable: openpyxl.load_workbook succeeds
\* marker:   a cell of rows 1..5, columns 1..19 contains "forecast" or "cnc"
\* week:     a cell of rows 1..5, columns 1..19 contains "week"
Documents ==
    { [name_ok |-> n, readable |-> FALSE, marker |-> FALSE, week |-> FALSE,
       cells |-> <<>>, fingerprint |-> Fp(0)] : n \in BOOLEAN }
    \cup
    { [name_ok |-> TRUE, readable |-> TRUE, marker |-> m, week |-> w,
       cells |-> c, fingerprint |-> f] :
         m \in BOOLEAN, w \in BOOLEAN, c \in CellRows, f \in Fingerprints }

NoDocument == [name_ok |-> FALSE, readable |-> FALSE, marker |-> FALSE,
               week |-> FALSE, cells |-> <<>>, fingerprint |-> Fp(0)]

Record(model, process, period, quantity) ==
    [model |-> model, process |-> process, period |-> period, quantity |-> quantity]

Raised == [raised |-> TRUE, value |-> <<>>]
Returned(v) == [raised |-> FALSE, value |-> v]

-----------------------------------------------------------------------------
(* excel_service *)

IsCncForecastFormat(doc) ==
    IF ~doc.readable THEN FALSE
    ELSE doc.marker /\ doc.week

RECURSIVE CncRecords(_, _)
CncRecords(cells, col) ==
    IF col > Len(cells) THEN <<>>
    ELSE LET c == cells[col]
         IN  IF c.kind = "number" /\ c.n > 0
             THEN <<Record("M1", "CNC", col, c.n)>> \o CncRecords(cells, col + 1)
             ELSE CncRecords(cells, col + 1)

\* int(float("inf")) raises OverflowError, which the except clause of the
\* quantity loop (ValueError, TypeError) does not catch.
ParseCncForecast(doc) ==
    IF ~doc.readable THEN Raised
    ELSE IF \E i \in 1..Len(doc.cells) : doc.cells[i].kind = "inf" THEN Raised
    ELSE Returned(CncRecords(doc.cells, 1))

RECURSIVE MappedRecords(_, _)
MappedRecords(cells, col) ==
    IF col > Len(cells) THEN <<>>
    ELSE LET c == cells[col]
         IN  IF c.kind = "number" /\ c.n # 0
             THEN <<Record("M1", "absent", col, c.n)>> \o MappedRecords(cells, col + 1)
             ELSE MappedRecords(cells, col + 1)

Mappings == {"default", "malformed"}

\* A mapping whose column letters or row numbers are not what openpyxl
\* accepts makes column_index_from_string / range raise.
ParseWithMapping(doc, mapping) ==
    IF ~doc.readable \/ mapping = "malformed" THEN Raised
    ELSE Returned(MappedRecords(doc.cells, 1))

-----------------------------------------------------------------------------
(* fingerprint_service *)

\* The signature of a document is carried by the document; reading an
\* unreadable workbook raises.
GenerateFingerprint(doc) ==
    IF doc.readable THEN Returned(doc.fingerprint) ELSE Raised

CommonPositions(f1, f2) ==
    Cardinality({i \in 1..FingerprintLen : f1[i] = f2[i]})

\* Called by the template store without file paths: equal signatures give
\* 100, otherwise the share of agreeing positions.
CalculateSimilarity(f1, f2) ==
    IF f1 = f2 THEN 10000
    ELSE (CommonPositions(f1, f2) * 10000) \div FingerprintLen

-----------------------------------------------------------------------------
(* template_service: the template store *)

TemplateIds == 1..MaxTemplates

SetMax(S) == CHOOSE x \in S : \A y \in S : y <= x
SetMin(S) == CHOOSE x \in S : \A y \in S : x <= y

\* SQLite gives a new row of an INTEGER PRIMARY KEY table the largest stored
\* id plus one.
NextId(store) == IF DOMAIN store = {} THEN 1 ELSE SetMax(DOMAIN store) + 1

GetTemplate(store, id) == IF id \in DOMAIN store THEN id ELSE 0

\* Mutant: the is_active filter of the queries is missing.
ActiveIds_All(store) == DOMAIN store

ActiveIds(store) == {id \in DOMAIN store : store[id].is_active}

ExactMatches(store, fingerprint) ==
    {id \in ActiveIds(store) : store[id].fingerprint = fingerprint}

\* The loop over all_templates, rows in id order: a later row replaces the
\* best one only with a strictly larger score.
RECURSIVE BestMatch(_, _, _, _)
BestMatch(store, fingerprint, ids, best) ==
    IF ids = {} THEN best
    ELSE LET id == SetMin(ids)
             score == CalculateSimilarity(fingerprint, store[id].fingerprint)
         IN  BestMatch(store, fingerprint, ids \ {id},
                       IF score > best.score
                       THEN [template |-> id, score |-> score]
                       ELSE best)

NoMatch == [template |-> 0, score |-> 0]

\* Mutant: the best score is compared with TEMPLATE_MIN_CONFIDENCE itself
\* (0.7) instead of TEMPLATE_MIN_CONFIDENCE * 100.
FindMatchingTemplate_UnscaledThreshold(store, fingerprint) ==
    IF ExactMatches(store, fingerprint) # {}
    THEN [template |-> SetMin(ExactMatches(store, fingerprint)), score |-> 10000]
    ELSE LET best == BestMatch(store, fingerprint, ActiveIds(store), NoMatch)
         IN  IF best.score >= MinConfidenceScore \div 100 THEN best ELSE NoMatch

FindMatchingTemplate(store, fingerprint) ==
    IF ExactMatches(store, fingerprint) # {}
    THEN [template |-> SetMin(ExactMatches(store, fingerprint)), score |-> 10000]
    ELSE LET best == BestMatch(store, fingerprint, ActiveIds(store), NoMatch)
         IN  IF best.score >= MinConfidenceScore THEN best ELSE NoMatch

\* Mutant: the fingerprint column has no unique index.
CreateTemplate_NoUniqueIndex(store, name, doc, mapping) ==
    LET fp == GenerateFingerprint(doc)
    IN  IF fp.raised THEN store
        ELSE [id \in DOMAIN store \cup {NextId(store)} |->
                 IF id \in DOMAIN store THEN store[id]
                 ELSE [name |-> name,
                       fingerprint |-> fp.value,
                       mapping |-> mapping,
                       accuracy_rate |-> InitialAccuracy,
                       use_count |-> 0,
                       is_active |-> TRUE]]

\* The fingerprint column is unique: inserting a second row with a stored
\* signature fails at commit and stores nothing.
CreateTemplate(store, name, doc, mapping) ==
    LET fp == GenerateFingerprint(doc)
    IN  IF fp.raised THEN store
        ELSE IF \E id \in DOMAIN store : store[id].fingerprint = fp.value THEN store
        ELSE [id \in DOMAIN store \cup {NextId(store)} |->
                 IF id \in DOMAIN store THEN store[id]
                 ELSE [name |-> name,
                       fingerprint |-> fp.value,
                       mapping |-> mapping,
                       accuracy_rate |-> InitialAccuracy,
                       use_count |-> 0,
                       is_active |-> TRUE]]

\* Mutant: a new mapping takes the signature of the recipe with it.
UpdateTemplate_MappingEditResetsSignature(store, id, name, mapping, is_active) ==
    IF GetTemplate(store, id) = 0 THEN store
    ELSE [store EXCEPT
            ![id].name = IF name # "absent" THEN name ELSE @,
            ![id].mapping = IF mapping # "absent" THEN mapping ELSE @,
            ![id].fingerprint = IF mapping # "absent" THEN Fp(FingerprintLen) ELSE @,
            ![id].is_active = IF is_active # "absent" THEN (is_active = "true") ELSE @]

\* "absent" stands for None, and for a name or mapping that is not truthy.
UpdateTemplate(store, id, name, mapping, is_active) ==
    IF GetTemplate(store, id) = 0 THEN store
    ELSE [store EXCEPT
            ![id].name = IF name # "absent" THEN name ELSE @,
            ![id].mapping = IF mapping # "absent" THEN mapping ELSE @,
            ![id].is_active = IF is_active # "absent" THEN (is_active = "true") ELSE @]

DeleteTemplate(store, id) ==
    IF GetTemplate(store, id) = 0 THEN store
    ELSE [i \in DOMAIN store \ {id} |-> store[i]]

\* Mutant: a success adds its weight without decaying the old value.
UpdatedAccuracy_NoDecayOnSuccess(accuracy_rate, was_successful) ==
    IF was_successful
    THEN accuracy_rate + AccScale \div 10
    ELSE (accuracy_rate * 9) \div 10

UpdatedAccuracy(accuracy_rate, was_successful) ==
    IF was_successful
    THEN (accuracy_rate * 9) \div 10 + AccScale \div 10
    ELSE (accuracy_rate * 9) \div 10

\* Mutant: the threshold is tested on the accuracy before the update.
RecordUsageTemplate_ThresholdOnOldAccuracy(store, id, was_successful) ==
    IF GetTemplate(store, id) = 0 THEN store
    ELSE LET acc == UpdatedAccuracy(store[id].accuracy_rate, was_successful)
         IN  [store EXCEPT
                ![id].use_count = @ + 1,
                ![id].accuracy_rate = acc,
                ![id].is_active = IF store[id].accuracy_rate < AutoDisableThreshold
                                  THEN FALSE ELSE @]

\* Mutant: the active flag is set from the threshold test in both directions.
RecordUsageTemplate_FlagFollowsThreshold(store, id, was_successful) ==
    IF GetTemplate(store, id) = 0 THEN store
    ELSE LET acc == UpdatedAccuracy(store[id].accuracy_rate, was_successful)
         IN  [store EXCEPT
                ![id].use_count = @ + 1,
                ![id].accuracy_rate = acc,
                ![id].is_active = (acc >= AutoDisableThreshold)]

\* The template part of record_usage.
RecordUsageTemplate(store, id, was_successful) ==
    IF GetTemplate(store, id) = 0 THEN store
    ELSE LET acc == UpdatedAccuracy(store[id].accuracy_rate, was_successful)
         IN  [store EXCEPT
                ![id].use_count = @ + 1,
                ![id].accuracy_rate = acc,
                ![id].is_active = IF acc < AutoDisableThreshold THEN FALSE ELSE @]

\* The usage-log part of record_usage.
RecordUsageLog(log, id, score, was_successful) ==
    Append(log, [template_id |-> id, match_score |-> score,
                 was_successful |-> was_successful])

NoMetrics == [present |-> FALSE, total_uploads |-> 0, template_hits |-> 0,
              llm_calls |-> 0, api_cost_saved |-> 0]

UpdateDailyMetrics(m, template_hit, llm_called, cost_saved) ==
    [present |-> TRUE,
     total_uploads |-> m.total_uploads + 1,
     template_hits |-> m.template_hits + (IF template_hit THEN 1 ELSE 0),
     llm_calls |-> m.llm_calls + (IF llm_called THEN 1 ELSE 0),
     api_cost_saved |-> m.api_cost_saved + cost_saved]

-----------------------------------------------------------------------------
(* llm_service: what the external capability can hand back *)

CorrectedRecords == <<Record("MC", "absent", 1, 9)>>
AnalysedRecords == <<Record("MA", "absent", 1, 3)>>

\* Return values of verify_template_result.  kind "raise": the call raises
\* (API error, blocked response); kind "nondict": the response text is JSON
\* but not an object; is_valid is the truth value of .get("is_valid", False).
Verification(kind, is_valid, confidence, corrections) ==
    [kind |-> kind, is_valid |-> is_valid, confidence |-> confidence,
     corrections |-> corrections]

VerifyOutcomes ==
    { Verification("raise", FALSE, -1, <<>>),
      Verification("nondict", FALSE, -1, <<>>),
      Verification("dict", TRUE, -1, <<>>),
      Verification("dict", TRUE, 9500, <<>>),
      Verification("dict", FALSE, 0, <<>>),
      Verification("dict", FALSE, 4000, CorrectedRecords) }

\* Return values of analyze_excel_image, which catches every failure of the
\* call itself.  kind "nondict": JSON that is not an object; "badrecords":
\* an object whose records lack model, period or quantity.
Analysis(kind, records, confidence, notes) ==
    [kind |-> kind, data |-> records, confidence |-> confidence, notes |-> notes]

AnalysisOutcomes ==
    { Analysis("dict", AnalysedRecords, 9500, "llm notes"),
      Analysis("dict", AnalysedRecords, -1, "absent"),
      Analysis("dict", <<>>, 0, "llm failure"),
      Analysis("nondict", <<>>, -1, "absent"),
      Analysis("badrecords", <<>>, 9500, "llm notes") }

NoAnalysis == Analysis("none", <<>>, -1, "absent")

\* What the external capability answers to one call.
\*   call_error:           generate_content raises, or no usable candidate
\*   not_json:             text that json.loads rejects
\*   json_array:           JSON that is no object (array, number, string, null)
\*   object_bad_records:   an object whose records lack model/period/quantity
\*   object_no_confidence: a well-formed object without "confidence"
\*   object:               a well-formed object
LlmReplies == {"call_error", "not_json", "json_array", "object_bad_records",
               "object_no_confidence", "object"}

MalformedReplies == {"not_json", "json_array", "object_bad_records"}

\* analyze_excel_image: the call and json.loads are guarded, the shape of the
\* decoded value is not looked at.
AnalyzeExcelImage(reply) ==
    CASE reply = "call_error" -> Analysis("dict", <<>>, 0, "llm failure")
      [] reply = "not_json" -> Analysis("dict", <<>>, 0, "llm failure")
      [] reply = "json_array" -> Analysis("nondict", <<>>, -1, "absent")
      [] reply = "object_bad_records" -> Analysis("badrecords", <<>>, 9500, "llm notes")
      [] reply = "object_no_confidence" -> Analysis("dict", AnalysedRecords, -1, "absent")
      [] reply = "object" -> Analysis("dict", AnalysedRecords, 9500, "llm notes")

\* verify_template_result: only json.loads is guarded.  A well-formed object
\* is one of the verdicts of VerifyOutcomes.
VerifyTemplateResult(reply) ==
    CASE reply = "call_error" -> {Verification("raise", FALSE, -1, <<>>)}
      [] reply = "not_json" -> {Verification("dict", FALSE, 0, <<>>)}
      [] reply = "json_array" -> {Verification("nondict", FALSE, -1, <<>>)}
      [] reply = "object_bad_records" ->
            {Verification("dict", FALSE, 4000, CorrectedRecords)}
      [] reply = "object_no_confidence" -> {Verification("dict", TRUE, -1, <<>>)}
      [] reply = "object" -> {Verification("dict", TRUE, 9500, <<>>),
                              Verification("dict", FALSE, 4000, CorrectedRecords)}

-----------------------------------------------------------------------------
(* upload.py: upload_forecast *)

Response(status, records, confidence, notes, template_matched) ==
    [status |-> status, data |-> records, confidence |-> confidence,
     notes |-> notes, template_matched |-> template_matched]

NoResponse == Response("none", <<>>, 0, "absent", FALSE)
Http400 == Response("http400", <<>>, 0, "absent", FALSE)
Http500 == Response("http500", <<>>, 0, "absent", FALSE)

NotStarted == [usages |-> 0, metrics |-> NoMetrics]

NoSessions == << >>
NoBook == << >>
NoResults == [op |-> "none"]
NoSnapshots == << >>

SideIdle ==
    /\ sessions = NoSessions
    /\ book = NoBook
    /\ book2 = NoBook
    /\ results = NoResults
    /\ snapshots = NoSnapshots

Init ==
    /\ templates = << >>
    /\ usages = << >>
    /\ metrics = NoMetrics
    /\ pc = "idle"
    /\ file = NoDocument
    /\ calls = << >>
    /\ matched_template = 0
    /\ match_score = 0
    /\ data = << >>
    /\ analysis_result = NoAnalysis
    /\ response = NoResponse
    /\ started = NotStarted
    /\ uploads = 0
    /\ SideIdle

\* The request arrives; a file name that is not .xlsx/.xls is refused at once.
ReceiveUpload(doc) ==
    /\ pc = "idle"
    /\ uploads < MaxUploads
    /\ uploads' = uploads + 1
    /\ file' = doc
    /\ started' = [usages |-> Len(usages), metrics |-> metrics]
    /\ calls' = << >>
    /\ IF doc.name_ok
       THEN pc' = "fixed_format" /\ response' = NoResponse
       ELSE pc' = "failed" /\ response' = Http400
    /\ UNCHANGED <<templates, usages, metrics, matched_template, match_score,
                   data, analysis_result>>
    /\ UNCHANGED sideVars

\* Mutant: the return after a successful fixed-format parse is missing.
FixedFormatCheck_NoReturn ==
    /\ pc = "fixed_format"
    /\ calls' = IF IsCncForecastFormat(file)
                THEN calls \o <<"is_cnc_forecast_format", "parse_cnc_forecast">>
                ELSE Append(calls, "is_cnc_forecast_format")
    /\ pc' = "template_match"
    /\ UNCHANGED <<templates, usages, metrics, file, matched_template, match_score,
                   data, analysis_result, response, started, uploads>>
    /\ UNCHANGED sideVars

\* Stage 0: the try block around is_cnc_forecast_format / parse_cnc_forecast.
\* An exception inside it is caught and the cascade goes on.
FixedFormatCheck ==
    /\ pc = "fixed_format"
    /\ IF IsCncForecastFormat(file)
       THEN LET result == ParseCncForecast(file)
            IN  IF result.raised
                THEN /\ calls' = calls \o <<"is_cnc_forecast_format", "parse_cnc_forecast">>
                     /\ pc' = "template_match"
                     /\ UNCHANGED <<metrics, response>>
                ELSE /\ calls' = calls \o <<"is_cnc_forecast_format", "parse_cnc_forecast",
                                            "update_daily_metrics">>
                     /\ metrics' = UpdateDailyMetrics(metrics, TRUE, FALSE, CncCostSaved)
                     /\ response' = Response("ok", result.value, CncConfidence,
                                             "cnc forecast", TRUE)
                     /\ pc' = "done"
       ELSE /\ calls' = Append(calls, "is_cnc_forecast_format")
            /\ pc' = "template_match"
            /\ UNCHANGED <<metrics, response>>
    /\ UNCHANGED <<templates, usages, file, matched_template, match_score, data,
                   analysis_result, started, uploads>>
    /\ UNCHANGED sideVars

\* Mutant: find_matching_template is called outside any try block.
TemplateMatch_Unguarded ==
    /\ pc = "template_match"
    /\ calls' = Append(calls, "find_matching_template")
    /\ LET fp == GenerateFingerprint(file)
       IN  IF fp.raised
           THEN /\ pc' = "crashed"
                /\ response' = Http500
                /\ UNCHANGED <<matched_template, match_score>>
           ELSE LET m == FindMatchingTemplate(templates, fp.value)
                IN  /\ matched_template' = m.template
                    /\ match_score' = m.score
                    /\ pc' = IF m.template # 0 /\ m.score >= HighConfidenceScore
                               THEN "template_direct"
                             ELSE IF m.template # 0 /\ m.score >= MinConfidenceScore
                               THEN "template_verify"
                             ELSE "full_analysis"
                    /\ UNCHANGED response
    /\ UNCHANGED <<templates, usages, metrics, file, data, analysis_result,
                   started, uploads>>
    /\ UNCHANGED sideVars

\* Stage 1: find_matching_template; its exception is reported as HTTP 400.
TemplateMatch ==
    /\ pc = "template_match"
    /\ calls' = Append(calls, "find_matching_template")
    /\ LET fp == GenerateFingerprint(file)
       IN  IF fp.raised
           THEN /\ pc' = "failed"
                /\ response' = Http400
                /\ UNCHANGED <<matched_template, match_score>>
           ELSE LET m == FindMatchingTemplate(templates, fp.value)
                IN  /\ matched_template' = m.template
                    /\ match_score' = m.score
                    /\ pc' = IF m.template # 0 /\ m.score >= HighConfidenceScore
                               THEN "template_direct"
                             ELSE IF m.template # 0 /\ m.score >= MinConfidenceScore
                               THEN "template_verify"
                             ELSE "full_analysis"
                    /\ UNCHANGED response
    /\ UNCHANGED <<templates, usages, metrics, file, data, analysis_result,
                   started, uploads>>
    /\ UNCHANGED sideVars

\* Mutant: a template hit is reported with full confidence.
DirectConfidence_Full(score) == CncConfidence

\* confidence=match_score / 100
DirectConfidence(score) == score

\* score >= 90: parse with the recipe's mapping, record the usage, return.
\* parse_with_mapping is not guarded: its exception ends the request.
TemplateDirect ==
    /\ pc = "template_direct"
    /\ LET parsed == ParseWithMapping(file, templates[matched_template].mapping)
       IN  IF parsed.raised
           THEN /\ calls' = Append(calls, "parse_with_mapping")
                /\ pc' = "crashed"
                /\ response' = Http500
                /\ UNCHANGED <<templates, usages, metrics, data>>
           ELSE /\ calls' = calls \o <<"parse_with_mapping", "record_usage",
                                       "update_daily_metrics">>
                /\ data' = parsed.value
                /\ usages' = RecordUsageLog(usages, matched_template, match_score, TRUE)
                /\ templates' = RecordUsageTemplate(templates, matched_template, TRUE)
                /\ metrics' = UpdateDailyMetrics(metrics, TRUE, FALSE, TemplateCostSaved)
                /\ response' = Response("ok", parsed.value, DirectConfidence(match_score),
                                        "template used", TRUE)
                /\ pc' = "done"
    /\ UNCHANGED <<file, matched_template, match_score, analysis_result, started,
                   uploads>>
    /\ UNCHANGED sideVars

\* verification.get("confidence", 0.8)
VerifiedConfidence(verification) ==
    IF verification.confidence = -1 THEN DefaultVerifiedConfidence
    ELSE verification.confidence

\* corrections = verification.get("corrections", []); if corrections: data = corrections
DataAfterFailedVerification(parsed, verification) ==
    IF verification.corrections # << >> THEN verification.corrections ELSE parsed

\* 70 <= score < 90: parse with the mapping, render, ask the verifier.
\* Neither the extraction nor the verifier call is guarded.
TemplateVerify(verification) ==
    /\ pc = "template_verify"
    /\ LET parsed == ParseWithMapping(file, templates[matched_template].mapping)
       IN  IF parsed.raised
           THEN /\ calls' = Append(calls, "parse_with_mapping")
                /\ pc' = "crashed"
                /\ response' = Http500
                /\ UNCHANGED <<templates, usages, metrics, data>>
           ELSE IF verification.kind # "dict"
           THEN /\ calls' = calls \o <<"parse_with_mapping", "excel_to_image",
                                       "verify_template_result">>
                /\ data' = parsed.value
                /\ pc' = "crashed"
                /\ response' = Http500
                /\ UNCHANGED <<templates, usages, metrics>>
           ELSE IF verification.is_valid
           THEN /\ calls' = calls \o <<"parse_with_mapping", "excel_to_image",
                                       "verify_template_result", "record_usage",
                                       "update_daily_metrics">>
                /\ data' = parsed.value
                /\ usages' = RecordUsageLog(usages, matched_template, match_score, TRUE)
                /\ templates' = RecordUsageTemplate(templates, matched_template, TRUE)
                /\ metrics' = UpdateDailyMetrics(metrics, TRUE, TRUE, 0)
                /\ response' = Response("ok", parsed.value,
                                        VerifiedConfidence(verification),
                                        "template verified", TRUE)
                /\ pc' = "done"
           ELSE /\ calls' = calls \o <<"parse_with_mapping", "excel_to_image",
                                       "verify_template_result">>
                /\ data' = DataAfterFailedVerification(parsed.value, verification)
                /\ pc' = "full_analysis"
                /\ UNCHANGED <<templates, usages, metrics, response>>
    /\ UNCHANGED <<file, matched_template, match_score, analysis_result, started,
                   uploads>>
    /\ UNCHANGED sideVars

\* data=[ForecastItem(...) for item in analysis_result.get("data", [])]
AnalysisData(local_data, result) == result.data

\* Mutant: the default of the verified branch is used for a missing confidence.
AnalysisConfidence_VerifiedDefault(result) ==
    IF result.confidence = -1 THEN DefaultVerifiedConfidence ELSE result.confidence

\* confidence=analysis_result.get("confidence", 0.0)
AnalysisConfidence(result) ==
    IF result.confidence = -1 THEN 0 ELSE result.confidence

\* notes=analysis_result.get("notes", <default text>)
AnalysisNotes(result) ==
    IF result.notes = "absent" THEN "llm analysis done" ELSE result.notes

\* Stage 2: full analysis.  The metric is written before the response is
\* built; building it from a result that is no object, or whose records lack
\* a key, raises.
FullAnalysis(result) ==
    /\ pc = "full_analysis"
    /\ calls' = calls \o <<"excel_to_image", "analyze_excel_image",
                           "update_daily_metrics">>
    /\ analysis_result' = result
    /\ metrics' = UpdateDailyMetrics(metrics, FALSE, TRUE, 0)
    /\ IF result.kind # "dict"
       THEN pc' = "crashed" /\ response' = Http500
       ELSE /\ pc' = "done"
            /\ response' = Response("ok", AnalysisData(data, result),
                                    AnalysisConfidence(result),
                                    AnalysisNotes(result), FALSE)
    /\ UNCHANGED <<templates, usages, file, matched_template, match_score, data,
                   started, uploads>>
    /\ UNCHANGED sideVars

\* The response has gone out; the handler's locals are gone.
Finish ==
    /\ pc \in {"done", "failed", "crashed", "matched", "created"}
    /\ pc' = "idle"
    /\ file' = NoDocument
    /\ calls' = << >>
    /\ matched_template' = 0
    /\ match_score' = 0
    /\ data' = << >>
    /\ analysis_result' = NoAnalysis
    /\ response' = NoResponse
    /\ started' = NotStarted
    /\ UNCHANGED <<templates, usages, metrics, uploads>>
    /\ UNCHANGED sideVars

-----------------------------------------------------------------------------
(* upload.py, templates.py: template management routes.  The handlers are  *)
(* coroutines without an await, so the one event loop runs each to its end *)
(* before the next request starts.                                         *)

SaveAsTemplate(name, doc, mapping) ==
    /\ pc = "idle"
    /\ templates' = CreateTemplate(templates, name, doc, mapping)
    /\ UNCHANGED <<usages, metrics>>
    /\ UNCHANGED reqVars
    /\ UNCHANGED sideVars

UpdateTemplateRoute(id, name, mapping, is_active) ==
    /\ pc = "idle"
    /\ templates' = UpdateTemplate(templates, id, name, mapping, is_active)
    /\ UNCHANGED <<usages, metrics>>
    /\ UNCHANGED reqVars
    /\ UNCHANGED sideVars

DeleteTemplateRoute(id) ==
    /\ pc = "idle"
    /\ templates' = DeleteTemplate(templates, id)
    /\ UNCHANGED <<usages, metrics>>
    /\ UNCHANGED reqVars
    /\ UNCHANGED sideVars

\* POST /{template_id}/activate
ActivateTemplate(id) ==
    /\ pc = "idle"
    /\ templates' = UpdateTemplate(templates, id, "absent", "absent", "true")
    /\ UNCHANGED <<usages, metrics>>
    /\ UNCHANGED reqVars
    /\ UNCHANGED sideVars

\* POST /{template_id}/deactivate
DeactivateTemplate(id) ==
    /\ pc = "idle"
    /\ templates' = UpdateTemplate(templates, id, "absent", "absent", "false")
    /\ UNCHANGED <<usages, metrics>>
    /\ UNCHANGED reqVars
    /\ UNCHANGED sideVars

\* The name save_as_template gives when none is sent, and the names a
\* recipe can be given later.
Names == {"new template"}
OptionalNames == {"absent", "renamed"}

OptionalMappings == Mappings \cup {"absent"}
OptionalFlags == {"true", "false", "absent"}

RecipeIds == 1..MaxRecipes

Next ==
    \/ \E doc \in Documents : ReceiveUpload(doc)
    \/ FixedFormatCheck
    \/ TemplateMatch
    \/ TemplateDirect
    \/ \E verification \in VerifyOutcomes : TemplateVerify(verification)
    \/ \E result \in AnalysisOutcomes : FullAnalysis(result)
    \/ Finish
    \/ \E name \in Names, doc \in Documents, mapping \in Mappings :
          NextId(templates) <= MaxRecipes /\ SaveAsTemplate(name, doc, mapping)
    \/ \E id \in RecipeIds, name \in OptionalNames, mapping \in OptionalMappings,
          is_active \in OptionalFlags :
          UpdateTemplateRoute(id, name, mapping, is_active)
    \/ \E id \in RecipeIds : DeleteTemplateRoute(id)
    \/ \E id \in RecipeIds : ActivateTemplate(id)
    \/ \E id \in RecipeIds : DeactivateTemplate(id)

Spec == Init /\ [][Next]_vars

TypeOK ==
    /\ DOMAIN templates \subseteq TemplateIds \cup RecipeIds
    /\ \A id \in DOMAIN templates :
          /\ templates[id].name \in Names \cup {"renamed"}
          /\ templates[id].fingerprint \in Fingerprints
          /\ templates[id].mapping \in Mappings
          /\ templates[id].is_active \in BOOLEAN
          /\ templates[id].use_count \in Nat
          /\ templates[id].accuracy_rate \in 0..AccScale
    /\ pc \in {"idle", "fixed_format", "template_match", "template_direct",
               "template_verify", "full_analysis", "done", "failed", "crashed",
               "matched", "created"}
    /\ uploads \in 0..MaxUploads
    /\ AnalysisOutcomes = { AnalyzeExcelImage(reply) : reply \in LlmReplies }
    /\ VerifyOutcomes = UNION { VerifyTemplateResult(reply) : reply \in LlmReplies }

-----------------------------------------------------------------------------
(* The template store on its own: the operations of TemplateService called *)
(* directly, record_usage with either success flag.                        *)

UsageScores == {10000}

RecordUsageCall(id, score, was_successful) ==
    /\ pc = "idle"
    /\ usages' = RecordUsageLog(usages, id, score, was_successful)
    /\ templates' = RecordUsageTemplate(templates, id, was_successful)
    /\ UNCHANGED metrics
    /\ UNCHANGED reqVars
    /\ UNCHANGED sideVars

\* find_matching_template on a readable document; the result is held in
\* matched_template and match_score until the call has returned (Finish).
FindMatchingTemplateCall(doc) ==
    /\ pc = "idle"
    /\ doc.readable
    /\ LET m == FindMatchingTemplate(templates, GenerateFingerprint(doc).value)
       IN  /\ matched_template' = m.template
           /\ match_score' = m.score
    /\ file' = doc
    /\ pc' = "matched"
    /\ UNCHANGED <<templates, usages, metrics, calls, data, analysis_result,
                   response, started, uploads>>
    /\ UNCHANGED sideVars

\* save_as_template on a readable document; what the caller gets (the new
\* recipe, or the error of the commit) is held in response until the call
\* has returned (Finish).
CreateTemplateCall(name, doc, mapping) ==
    /\ pc = "idle"
    /\ doc.readable
    /\ templates' = CreateTemplate(templates, name, doc, mapping)
    /\ response' = IF DOMAIN templates' = DOMAIN templates
                   THEN Http500
                   ELSE Response("ok", << >>, 0, "template saved", FALSE)
    /\ file' = doc
    /\ pc' = "created"
    /\ UNCHANGED <<usages, metrics, calls, matched_template, match_score, data,
                   analysis_result, started, uploads>>
    /\ UNCHANGED sideVars

\* One document per signature is enough for the store.
StoreDocuments ==
    { doc \in Documents : doc.readable /\ doc.marker /\ doc.week
                          /\ doc.cells = <<Num(0), Num(7)>> }

\* The store after create_template and n failed usages of the new recipe.
RECURSIVE AgedStore(_, _)
AgedStore(store, n) ==
    IF n = 0 THEN store
    ELSE AgedStore(RecordUsageTemplate(store, 1, FALSE), n - 1)

RECURSIVE AgedLog(_, _)
AgedLog(log, n) ==
    IF n = 0 THEN log
    ELSE AgedLog(RecordUsageLog(log, 1, 10000, FALSE), n - 1)

SeedDocument == CHOOSE doc \in StoreDocuments : doc.fingerprint = Fp(0)

\* SpecStore starts from a store the program has already worked on: one
\* recipe, created and then used SeedFailures times without success.
InitStore ==
    /\ templates = AgedStore(CreateTemplate(<< >>, "new template", SeedDocument, "default"), SeedFailures)
    /\ usages = AgedLog(<< >>, SeedFailures)
    /\ metrics = NoMetrics
    /\ pc = "idle"
    /\ file = NoDocument
    /\ calls = << >>
    /\ matched_template = 0
    /\ match_score = 0
    /\ data = << >>
    /\ analysis_result = NoAnalysis
    /\ response = NoResponse
    /\ started = NotStarted
    /\ uploads = 0
    /\ SideIdle

NextStore ==
    \/ \E name \in Names, doc \in StoreDocuments, mapping \in Mappings :
          NextId(templates) <= MaxTemplates /\ CreateTemplateCall(name, doc, mapping)
    \/ \E id \in TemplateIds, mapping \in OptionalMappings, is_active \in OptionalFlags :
          UpdateTemplateRoute(id, "absent", mapping, is_active)
    \/ \E id \in TemplateIds : DeleteTemplateRoute(id)
    \/ \E id \in TemplateIds, score \in UsageScores, ok \in BOOLEAN :
          Len(usages) < SeedFailures + MaxStoreUsage /\ RecordUsageCall(id, score, ok)
    \/ \E doc \in StoreDocuments : FindMatchingTemplateCall(doc)
    \/ Finish

SpecStore == InitStore /\ [][NextStore]_vars

\* The update law of record_usage on one stored recipe, whatever accuracy
\* the row holds: accuracies 0.00, 0.05, ..., 1.00.
AccuracyGrid == { (k * AccScale) \div 20 : k \in 0..20 }

InitLaw ==
    /\ \E a \in AccuracyGrid, active \in BOOLEAN :
          templates = (1 :> [name |-> "new template",
                             fingerprint |-> Fp(0),
                             mapping |-> "default",
                             accuracy_rate |-> a,
                             use_count |-> 0,
                             is_active |-> active])
    /\ usages = << >>
    /\ metrics = NoMetrics
    /\ pc = "idle"
    /\ file = NoDocument
    /\ calls = << >>
    /\ matched_template = 0
    /\ match_score = 0
    /\ data = << >>
    /\ analysis_result = NoAnalysis
    /\ response = NoResponse
    /\ started = NotStarted
    /\ uploads = 0
    /\ SideIdle

\* Recipe 1 is stored, recipe 2 is not.
LawIds == {1, 2}

NextLaw ==
    \/ \E id \in LawIds, score \in UsageScores, ok \in BOOLEAN :
          Len(usages) < MaxUsage /\ RecordUsageCall(id, score, ok)
    \/ \E id \in LawIds, name \in OptionalNames, mapping \in OptionalMappings,
          is_active \in OptionalFlags :
          UpdateTemplateRoute(id, name, mapping, is_active)
    \/ \E id \in LawIds : ActivateTemplate(id)
    \/ \E id \in LawIds : DeactivateTemplate(id)

SpecLaw == InitLaw /\ [][NextLaw]_vars

-----------------------------------------------------------------------------
(* record_usage called from several database sessions at once.  Each caller *)
(* has its own Session (get_template_db); a session reads the recipe row    *)
(* into its own object, changes the object, and writes the changed columns  *)
(* back when it commits.  SQLite serialises the commits, not the sessions.  *)

Sessions == 1..MaxSessions

\* The recipe all callers use.
RaceRecipe == 1

NoRow == [name |-> "absent", fingerprint |-> Fp(0), mapping |-> "absent",
          accuracy_rate |-> 0, use_count |-> 0, is_active |-> FALSE]

\* loaded: the row as the session read it; row: the session's object.
IdleSession == [pc |-> "idle", was_successful |-> FALSE, found |-> FALSE,
                loaded |-> NoRow, row |-> NoRow]

\* usage = TemplateUsage(...); db.add(usage)
UsageAdd(s, was_successful) ==
    /\ sessions[s].pc = "idle"
    /\ sessions' = [sessions EXCEPT ![s].pc = "added",
                                    ![s].was_successful = was_successful]
    /\ UNCHANGED <<templates, usages, metrics, book, book2, snapshots, results>>
    /\ UNCHANGED reqVars

\* template = self.get_template(db, template_id)
UsageRead(s) ==
    /\ sessions[s].pc = "added"
    /\ LET id == GetTemplate(templates, RaceRecipe)
       IN  sessions' = [sessions EXCEPT
                          ![s].pc = "read",
                          ![s].found = (id # 0),
                          ![s].loaded = IF id # 0 THEN templates[id] ELSE NoRow,
                          ![s].row = IF id # 0 THEN templates[id] ELSE NoRow]
    /\ UNCHANGED <<templates, usages, metrics, book, book2, snapshots, results>>
    /\ UNCHANGED reqVars

\* if template: use_count += 1; accuracy_rate = ...; is_active = False
UsageModify(s) ==
    /\ sessions[s].pc = "read"
    /\ sessions' = [sessions EXCEPT
                      ![s].pc = "modified",
                      ![s].row =
                          IF sessions[s].found
                          THEN RecordUsageTemplate(RaceRecipe :> sessions[s].row,
                                                   RaceRecipe,
                                                   sessions[s].was_successful)[RaceRecipe]
                          ELSE sessions[s].row]
    /\ UNCHANGED <<templates, usages, metrics, book, book2, snapshots, results>>
    /\ UNCHANGED reqVars

\* The UPDATE of the flush sets the columns whose value in the session's
\* object differs from the value the session loaded.
FlushedRow(current, loaded, row) ==
    [current EXCEPT
       !.use_count = IF row.use_count # loaded.use_count
                     THEN row.use_count ELSE @,
       !.accuracy_rate = IF row.accuracy_rate # loaded.accuracy_rate
                         THEN row.accuracy_rate ELSE @,
       !.is_active = IF row.is_active # loaded.is_active
                     THEN row.is_active ELSE @]

\* db.commit(): INSERT of the usage row and UPDATE of the recipe row, in one
\* transaction.
UsageCommit(s) ==
    /\ sessions[s].pc = "modified"
    /\ usages' = RecordUsageLog(usages, RaceRecipe, 10000, sessions[s].was_successful)
    /\ templates' =
          IF sessions[s].found /\ RaceRecipe \in DOMAIN templates
          THEN [templates EXCEPT
                  ![RaceRecipe] = FlushedRow(@, sessions[s].loaded, sessions[s].row)]
          ELSE templates
    /\ sessions' = [sessions EXCEPT ![s].pc = "committed"]
    /\ UNCHANGED <<metrics, book, book2, snapshots, results>>
    /\ UNCHANGED reqVars

InitRace ==
    /\ templates = CreateTemplate(<< >>, "new template", SeedDocument, "default")
    /\ usages = << >>
    /\ metrics = NoMetrics
    /\ pc = "idle"
    /\ file = NoDocument
    /\ calls = << >>
    /\ matched_template = 0
    /\ match_score = 0
    /\ data = << >>
    /\ analysis_result = NoAnalysis
    /\ response = NoResponse
    /\ started = NotStarted
    /\ uploads = 0
    /\ sessions = [s \in Sessions |-> IdleSession]
    /\ book = NoBook
    /\ book2 = NoBook
    /\ results = NoResults
    /\ snapshots = NoSnapshots

NextRace ==
    \/ \E s \in Sessions, ok \in BOOLEAN : UsageAdd(s, ok)
    \/ \E s \in Sessions : UsageRead(s)
    \/ \E s \in Sessions : UsageModify(s)
    \/ \E s \in Sessions : UsageCommit(s)

SpecRace == InitRace /\ [][NextRace]_vars

-----------------------------------------------------------------------------
(* Workbooks as grids: the active sheet as a sequence of rows of cells,      *)
(* columns A, B, C.  sheet.max_row is the number of rows.                    *)

Blank == [kind |-> "empty", n |-> 0]

HeaderRows == { <<Txt("model"), Txt("week1"), Txt("week2")>>,
                <<Txt("item"), Txt("week1"), Txt("week2")>> }

DataRows == { <<Txt("M1"), Num(5), Num(-2)>>,
              <<Txt("M2"), Num(0), Num(7)>>,
              <<Blank, Num(3), Num(4)>> }

BlankRow == <<Blank, Blank, Blank>>
RepeatRow == <<Txt("M1"), Num(5), Num(7)>>

RECURSIVE Repeat(_, _)
Repeat(row, n) == IF n = 0 THEN << >> ELSE <<row>> \o Repeat(row, n - 1)

RECURSIVE RowSeqs(_)
RowSeqs(n) ==
    IF n = 0 THEN { << >> }
    ELSE RowSeqs(n - 1) \cup
         { Append(rows, row) : rows \in { r \in RowSeqs(n - 1) : Len(r) = n - 1 },
                               row \in DataRows }

\* Row counts around the bucket limit 10, and one far from the small ones.
TallRowCounts == {9, 11, 32}

Books ==
    { <<header>> \o rows : header \in HeaderRows, rows \in RowSeqs(MaxDataRows) }
    \cup
    { <<header>> \o Repeat(RepeatRow, n - 1) : header \in HeaderRows, n \in TallRowCounts }

IsText(cell) == cell.kind \notin {"empty", "number"}

\* Python truth value of cell.value
Truthy(cell) ==
    IF cell.kind = "empty" THEN FALSE
    ELSE IF cell.kind = "number" THEN cell.n # 0
    ELSE TRUE

\* str(value)[:3] of the texts in use
Prefix3(text) ==
    CASE text = "model" -> "mod"
      [] text = "week1" -> "wee"
      [] text = "week2" -> "wee"
      [] text = "item" -> "ite"
      [] OTHER -> text

\* The entries of keywords_to_find contained in the lower-cased text
KeywordsIn(text) ==
    CASE text = "model" -> {"model"}
      [] text = "week1" -> {"week"}
      [] text = "week2" -> {"week"}
      [] OTHER -> {}

Min(a, b) == IF a <= b THEN a ELSE b
Max(a, b) == IF a >= b THEN a ELSE b

-----------------------------------------------------------------------------
(* fingerprint_service on grids *)

GetRangeBucket(value) ==
    IF value <= 10 THEN "small"
    ELSE IF value <= 50 THEN "medium"
    ELSE IF value <= 200 THEN "large"
    ELSE "xlarge"

\* '#' for text made of digits, dots and commas, else the first 3 characters;
\* '' for a value that is not truthy.  str() of a negative number starts
\* with '-', written "-#".
HeaderCell(cell) ==
    IF ~Truthy(cell) THEN ""
    ELSE IF cell.kind = "number" THEN (IF cell.n > 0 THEN "#" ELSE "-#")
    ELSE Prefix3(cell.kind)

\* rows 1 .. min(3, max_row)
ExtractHeaderPattern(sheet) ==
    [r \in 1..Min(3, Len(sheet)) |->
        [c \in 1..Len(sheet[r]) |-> HeaderCell(sheet[r][c])]]

DataType(cell) ==
    IF cell.kind = "empty" THEN "E"
    ELSE IF cell.kind = "number" THEN "N"
    ELSE "T"

\* rows 4 .. min(10, max_row)
ExtractDataTypes(sheet) ==
    [i \in 1..Max(0, Min(10, Len(sheet)) - 3) |->
        [c \in 1..Len(sheet[i + 3]) |-> DataType(sheet[i + 3][c])]]

\* set(found_keywords): rows 1 .. 5
ExtractKeywords(sheet) ==
    UNION { KeywordsIn(sheet[r][c].kind) :
              r \in 1..Min(5, Len(sheet)), c \in 1..3 }

\* list(set(...)): the elements in the order the set happens to enumerate
\* them, which for strings depends on the hash seed of the process.
Orders(S) ==
    { order \in [1..Cardinality(S) -> S] :
         \A i, j \in 1..Cardinality(S) : order[i] = order[j] => i = j }

\* generate_fingerprint with the keyword list in the given order.  The digest
\* prefix is taken to be injective on the serialised components, so the
\* signature is written as the components themselves.
FingerprintOf(sheet, order) ==
    [row_count_range |-> GetRangeBucket(Len(sheet)),
     col_count_range |-> GetRangeBucket(Len(sheet[1])),
     header_pattern |-> ExtractHeaderPattern(sheet),
     data_type_pattern |-> ExtractDataTypes(sheet),
     merged_cells_count |-> 0,
     keywords |-> order]

\* jellyfish.jaro_winkler_similarity of the two header texts, a value in
\* [0, 1] written in ten-thousandths.
JaroWinklerValues == {0, 5000, 10000}

Abs(x) == IF x < 0 THEN -x ELSE x

\* Mutant: the structure score is not cut off at 0.
StructureScore_Unclamped(sheet1, sheet2) ==
    10000 - (Abs(Len(sheet1) - Len(sheet2))
             + Abs(Len(sheet1[1]) - Len(sheet2[1]))) * 500

\* max(0, 100 - (row_diff + col_diff) * 5)
StructureScore(sheet1, sheet2) ==
    Max(0, 10000 - (Abs(Len(sheet1) - Len(sheet2))
                    + Abs(Len(sheet1[1]) - Len(sheet2[1]))) * 500)

\* len(kw1 & kw2) / len(kw1 | kw2) * 100, or 50 when both are empty
KeywordScore(sheet1, sheet2) ==
    LET kw1 == ExtractKeywords(sheet1)
        kw2 == ExtractKeywords(sheet2)
    IN  IF kw1 \cup kw2 # {}
        THEN (Cardinality(kw1 \cap kw2) * 10000) \div Cardinality(kw1 \cup kw2)
        ELSE 5000

\* _detailed_similarity; fails: jellyfish cannot be imported or a workbook
\* cannot be loaded.
DetailedSimilarity(sheet1, sheet2, jaro_winkler, fails) ==
    IF fails THEN 5000
    ELSE (StructureScore(sheet1, sheet2) * 4) \div 10
         + (jaro_winkler * 4) \div 10
         + (KeywordScore(sheet1, sheet2) * 2) \div 10

\* calculate_similarity with its optional file paths (NoBook: not given)
CalculateSimilarityOfFiles(f1, f2, sheet1, sheet2, jaro_winkler, fails) ==
    IF f1 = f2 THEN 10000
    ELSE IF sheet1 # NoBook /\ sheet2 # NoBook
    THEN DetailedSimilarity(sheet1, sheet2, jaro_winkler, fails)
    ELSE CalculateSimilarity(f1, f2)

SimilarityPath(f1, f2, sheet1, sheet2, fails) ==
    IF f1 = f2 THEN "equal"
    ELSE IF sheet1 # NoBook /\ sheet2 # NoBook
    THEN (IF fails THEN "failed" ELSE "detailed")
    ELSE "positional"

-----------------------------------------------------------------------------
(* excel_service.parse_with_mapping on grids: model_column "A", date_row 1, *)
(* date_start_column "B", no skip_columns.                                  *)

GridMappings ==
    { [model_start_row |-> r, skip_rows |-> sk] : r \in {2, 3}, sk \in {{}, {2}, {3}} }

\* dates: the columns from B on whose header cell is truthy
DateColumns(sheet) == { c \in 2..Len(sheet[1]) : Truthy(sheet[1][c]) }

RECURSIVE ParseRowCells(_, _, _)
ParseRowCells(sheet, row_num, col) ==
    IF col > Len(sheet[row_num]) THEN << >>
    ELSE LET quantity == sheet[row_num][col]
         IN  IF col \in DateColumns(sheet) /\ Truthy(quantity) /\ quantity.kind = "number"
             THEN <<Record(sheet[row_num][1].kind, "absent", sheet[1][col].kind, quantity.n)>>
                  \o ParseRowCells(sheet, row_num, col + 1)
             ELSE ParseRowCells(sheet, row_num, col + 1)

RECURSIVE ParseRows(_, _, _)
ParseRows(sheet, mapping, row_num) ==
    IF row_num > Len(sheet) THEN << >>
    ELSE IF row_num \in mapping.skip_rows \/ ~Truthy(sheet[row_num][1])
    THEN ParseRows(sheet, mapping, row_num + 1)
    ELSE ParseRowCells(sheet, row_num, 2) \o ParseRows(sheet, mapping, row_num + 1)

ParseGridWithMapping(sheet, mapping) ==
    ParseRows(sheet, mapping, mapping.model_start_row)

-----------------------------------------------------------------------------
(* The grid functions called on their own, one call per workbook state *)

\* D' is D with a blank row, or a row with the type pattern of the data rows,
\* appended.
AppendRow(row) ==
    /\ Len(book2) - Len(book) < MaxAppend
    /\ book2' = Append(book2, row)
    /\ results' = NoResults
    /\ UNCHANGED <<templates, usages, metrics, sessions, book, snapshots>>
    /\ UNCHANGED reqVars

\* generate_fingerprint on D, on D once more (after a restart of the
\* process: any enumeration order), and on D' (same process: the same order
\* for the same keyword list).
GenerateFingerprintCall(order1, order2, order3) ==
    /\ results = NoResults
    /\ ExtractKeywords(book2) = ExtractKeywords(book) => order3 = order1
    /\ results' = [op |-> "generate_fingerprint",
                   first |-> FingerprintOf(book, order1),
                   again |-> FingerprintOf(book, order2),
                   other |-> FingerprintOf(book2, order3)]
    /\ UNCHANGED <<templates, usages, metrics, sessions, book, book2, snapshots>>
    /\ UNCHANGED reqVars

\* calculate_similarity of D with another workbook, with or without the file
\* paths.  A workbook compared with itself brings equal signatures.
CalculateSimilarityCall(f1, f2, with_paths, other, jaro_winkler, fails) ==
    /\ results = NoResults
    /\ other = book => f1 = f2
    /\ LET sheet1 == IF with_paths THEN book ELSE NoBook
           sheet2 == IF with_paths THEN other ELSE NoBook
       IN  results' = [op |-> "calculate_similarity",
                       f1 |-> f1,
                       f2 |-> f2,
                       path |-> SimilarityPath(f1, f2, sheet1, sheet2, fails),
                       row_diff |-> Abs(Len(book) - Len(other)),
                       value |-> CalculateSimilarityOfFiles(f1, f2, sheet1, sheet2,
                                                            jaro_winkler, fails)]
    /\ UNCHANGED <<templates, usages, metrics, sessions, book, book2, snapshots>>
    /\ UNCHANGED reqVars

ParseWithMappingCall(mapping) ==
    /\ results = NoResults
    /\ results' = [op |-> "parse_with_mapping",
                   mapping |-> mapping,
                   value |-> ParseGridWithMapping(book, mapping)]
    /\ UNCHANGED <<templates, usages, metrics, sessions, book, book2, snapshots>>
    /\ UNCHANGED reqVars

\* The workbooks D is compared with: D', a tall one, a small one.
ComparedBooks ==
    {book2} \cup { b \in Books : Len(b) = 32 \/ Len(b) = 1 }

InitSheet ==
    /\ templates = << >>
    /\ usages = << >>
    /\ metrics = NoMetrics
    /\ pc = "idle"
    /\ file = NoDocument
    /\ calls = << >>
    /\ matched_template = 0
    /\ match_score = 0
    /\ data = << >>
    /\ analysis_result = NoAnalysis
    /\ response = NoResponse
    /\ started = NotStarted
    /\ uploads = 0
    /\ sessions = NoSessions
    /\ book \in Books
    /\ book2 = book
    /\ results = NoResults
    /\ snapshots = NoSnapshots

NextSheet ==
    \/ \E row \in {BlankRow, RepeatRow} : AppendRow(row)
    \/ \E order1, order2 \in Orders(ExtractKeywords(book)),
          order3 \in Orders(ExtractKeywords(book2)) :
          GenerateFingerprintCall(order1, order2, order3)
    \/ \E f1, f2 \in Fingerprints, with_paths \in BOOLEAN, other \in ComparedBooks,
          jaro_winkler \in JaroWinklerValues, fails \in BOOLEAN :
          CalculateSimilarityCall(f1, f2, with_paths, other, jaro_winkler, fails)
    \/ \E mapping \in GridMappings : ParseWithMappingCall(mapping)

SpecSheet == InitSheet /\ [][NextSheet]_vars

-----------------------------------------------------------------------------
(* Workbooks of the fixed CNC layout: the active sheet as its dimensions and *)
(* the cells that hold a value; sheet.cell(row, column).value of any other   *)
(* cell is None.                                                             *)

MaxCncRows == 2     \* data rows of a fixed-layout workbook

At(row, col, value) == <<row, col>> :> value

Sheet(max_row, max_column, cells) ==
    [readable |-> TRUE, max_row |-> max_row, max_column |-> max_column,
     cells |-> cells]

\* openpyxl.load_workbook raises on this one
UnreadableBook ==
    [readable |-> FALSE, max_row |-> 0, max_column |-> 0, cells |-> << >>]

Cell(sheet, row, col) ==
    IF <<row, col>> \in DOMAIN sheet.cells THEN sheet.cells[<<row, col>>] ELSE Blank

\* A string cell "MM/DD..." as the two numbers re.match(r'(\d{1,2})/(\d{1,2})')
\* reads from it.
DateLabel(month, day) == [kind |-> "MM/DD", n |-> month * 100 + day]

\* A cell holding a datetime, as yyyymmdd.
DateTimeCell(year, month, day) ==
    [kind |-> "datetime", n |-> year * 10000 + month * 100 + day]

\* The words looked for that the lower-cased, stripped text contains.
TokensOf(text) ==
    CASE text = "Forecast CNC" -> {"forecast", "cnc"}
      [] text = "Forecast" -> {"forecast"}
      [] text = "CNC" -> {"cnc"}
      [] text = "Week 47" -> {"week"}
      [] text = "Model" -> {"model"}
      [] text = "Total" -> {"total"}
      [] text = "Sum" -> {"sum"}
      [] OTHER -> {}

\* token in str(cell_val).lower(), for a cell that is truthy
CellHas(cell, token) ==
    Truthy(cell) /\ IsText(cell) /\ token \in TokensOf(cell.kind)

\* range(1, min(limit, n + 1))
ScanRange(limit, n) == 1..(Min(limit, n + 1) - 1)

RECURSIVE Ascending(_)
Ascending(S) ==
    IF S = {} THEN << >>
    ELSE <<SetMin(S)>> \o Ascending(S \ {SetMin(S)})

-----------------------------------------------------------------------------
(* excel_service.is_cnc_forecast_format and parse_cnc_forecast on sheets *)

\* found_forecast and found_week; any exception gives False
IsCncForecastFormatOfSheet(sheet) ==
    IF ~sheet.readable THEN FALSE
    ELSE /\ \E row \in ScanRange(6, sheet.max_row), col \in ScanRange(20, sheet.max_column) :
               CellHas(Cell(sheet, row, col), "forecast") \/ CellHas(Cell(sheet, row, col), "cnc")
         /\ \E row \in ScanRange(6, sheet.max_row), col \in ScanRange(20, sheet.max_column) :
               CellHas(Cell(sheet, row, col), "week")

\* forecast_rows: each row once (break), in ascending order
ForecastRows(sheet) ==
    Ascending({ row \in ScanRange(30, sheet.max_row) :
                  \E col \in ScanRange(20, sheet.max_column) :
                     /\ CellHas(Cell(sheet, row, col), "forecast")
                     /\ CellHas(Cell(sheet, row, col), "cnc") })

DataSectionStart(sheet) ==
    LET forecast_rows == ForecastRows(sheet)
    IN  IF Len(forecast_rows) >= 2 THEN forecast_rows[2]
        ELSE IF Len(forecast_rows) = 1 THEN forecast_rows[1]
        ELSE 1

\* The first cell, row by row, that contains "model"; row 0 and column 1
\* when there is none.
ModelHeader(sheet) ==
    LET start == DataSectionStart(sheet)
        rows == start..(Min(start + 10, sheet.max_row + 1) - 1)
        hits == { pos \in rows \X ScanRange(20, sheet.max_column) :
                    CellHas(Cell(sheet, pos[1], pos[2]), "model") }
    IN  IF hits = {} THEN [row |-> 0, col |-> 1]
        ELSE LET row == SetMin({ pos[1] : pos \in hits })
             IN  [row |-> row, col |-> SetMin({ pos[2] : pos \in { h \in hits : h[1] = row } })]

IsDateCell(cell) == Truthy(cell) /\ cell.kind \in {"datetime", "MM/DD"}

FoundDates(sheet, check_row, data_start_col) ==
    Cardinality({ col \in data_start_col..sheet.max_column :
                    IsDateCell(Cell(sheet, check_row, col)) })

\* The first of the three rows below the header with at least 3 dates, else
\* the row below the header.
DateRow(sheet) ==
    LET header == ModelHeader(sheet)
        rows == { check_row \in (header.row + 1)..(Min(header.row + 4, sheet.max_row + 1) - 1) :
                     FoundDates(sheet, check_row, header.col + 3) >= 3 }
    IN  IF rows = {} THEN header.row + 1 ELSE SetMin(rows)

Period(year, month, day) == [year |-> year, month |-> month, day |-> day]

\* date_str of a date cell: strftime of a datetime, or the label with the
\* year inferred from the current month
PeriodOf(cell, current_year, current_month) ==
    IF cell.kind = "datetime"
    THEN Period(cell.n \div 10000, (cell.n \div 100) % 100, cell.n % 100)
    ELSE LET month == cell.n \div 100
             day == cell.n % 100
         IN  Period(IF month >= current_month - 1 THEN current_year ELSE current_year + 1,
                    month, day)

\* date_columns: the columns of the date row that hold a date
DateColumnsOfCnc(sheet) ==
    { col \in (ModelHeader(sheet).col + 3)..sheet.max_column :
         IsDateCell(Cell(sheet, DateRow(sheet), col)) }

\* "hapgye" stands for the Korean word for total.
SkipKeywords == {"total", "hapgye", "sum", "ag tech", "agtech"}

\* any(kw in model_str.lower() for kw in skip_keywords)
HasSkipKeyword(cell) == \E kw \in SkipKeywords : CellHas(cell, kw)

\* str(value).strip() of a text cell, "" for a value that is not truthy
StrOf(cell) ==
    IF Truthy(cell) /\ IsText(cell) /\ cell.kind # " " THEN cell.kind ELSE ""

\* Mutant: a skip keyword clears the model carried so far.
NextModel_SkipKeywordClears(current_model, model_cell) ==
    IF Truthy(model_cell)
    THEN (IF HasSkipKeyword(model_cell) THEN "" ELSE StrOf(model_cell))
    ELSE current_model

\* current_model after the model cell of a row has been looked at; None and
\* "" are both written "".
NextModel(current_model, model_cell) ==
    IF Truthy(model_cell) /\ ~HasSkipKeyword(model_cell)
    THEN StrOf(model_cell)
    ELSE current_model

\* int(float(quantity_cell)) after the string clean-up:
\*   skip  - None, "-", "", or ValueError / TypeError (caught)
\*   raise - OverflowError of int(float("inf")) (not caught)
QuantityOf(cell) ==
    CASE cell.kind = "empty" -> [kind |-> "skip", n |-> 0]
      [] cell.kind = "number" -> [kind |-> "int", n |-> cell.n]
      [] cell.kind = "1,200" -> [kind |-> "int", n |-> 1200]
      [] cell.kind = "inf" -> [kind |-> "raise", n |-> 0]
      [] OTHER -> [kind |-> "skip", n |-> 0]

RECURSIVE RowRecords(_, _, _, _, _, _, _)
RowRecords(sheet, row_num, date_row, cols, current_model, process, now) ==
    IF cols = {} THEN << >>
    ELSE LET col == SetMin(cols)
             quantity == QuantityOf(Cell(sheet, row_num, col))
             rest == RowRecords(sheet, row_num, date_row, cols \ {col},
                                current_model, process, now)
         IN  IF quantity.kind = "int" /\ quantity.n > 0
             THEN <<Record(current_model, process,
                           PeriodOf(Cell(sheet, date_row, col), now.year, now.month),
                           quantity.n)>> \o rest
             ELSE rest

RowRaises(sheet, row_num, cols) ==
    \E col \in cols : QuantityOf(Cell(sheet, row_num, col)).kind = "raise"

\* The loop over the data rows; found: model_col, date_row and the columns
\* of date_columns.  models: current_model after each row; emitted: the
\* records each row appended to results.
RECURSIVE ParseCncRows(_, _, _, _, _)
ParseCncRows(sheet, found, row_num, current_model, now) ==
    IF row_num > sheet.max_row
    THEN [raised |-> FALSE, models |-> << >>, emitted |-> << >>]
    ELSE LET process == StrOf(Cell(sheet, row_num, found.model_col + 1))
             Outcomes(model) ==
                 IF model # "" /\ process # "" /\ RowRaises(sheet, row_num, found.cols)
                 THEN { [raised |-> TRUE, models |-> <<model>>,
                         emitted |-> << << >> >>] }
                 ELSE { [raised |-> rest.raised,
                         models |-> <<model>> \o rest.models,
                         emitted |-> << IF model # "" /\ process # ""
                                        THEN RowRecords(sheet, row_num, found.date_row,
                                                        found.cols, model, process, now)
                                        ELSE << >> >> \o rest.emitted] :
                        rest \in { ParseCncRows(sheet, found, row_num + 1, model, now) } }
         IN  CHOOSE outcome \in
                 UNION { Outcomes(model) :
                           model \in { NextModel(current_model,
                                                 Cell(sheet, row_num, found.model_col)) } } :
                 TRUE

RECURSIVE Concat(_)
Concat(seqs) == IF seqs = << >> THEN << >> ELSE Head(seqs) \o Concat(Tail(seqs))

\* now: datetime.now() as [year, month]
ParseCncForecastOfSheet(sheet, now) ==
    IF ~sheet.readable
    THEN [raised |-> TRUE, data |-> << >>, models |-> << >>, emitted |-> << >>]
    ELSE CHOOSE parsed \in
             UNION { { [raised |-> rows.raised, data |-> Concat(rows.emitted),
                        models |-> rows.models, emitted |-> rows.emitted] :
                       rows \in { ParseCncRows(sheet, found, found.date_row + 1, "", now) } } :
                     found \in { [model_col |-> ModelHeader(sheet).col,
                                  date_row |-> DateRow(sheet),
                                  cols |-> DateColumnsOfCnc(sheet)] } } :
             TRUE

-----------------------------------------------------------------------------
(* The workbooks handed to the fixed-layout functions.  Model and process   *)
(* cells hold text, nothing, or the number 0.                               *)

\* The cells of one row that hold a value, from column first_col on
RowCells(row, first_col, values) ==
    [pos \in { <<row, first_col + i - 1>> : i \in { j \in 1..Len(values) : values[j] # Blank } }
        |-> values[pos[2] - first_col + 1]]

RECURSIVE RowsCells(_, _, _)
RowsCells(first_row, first_col, rows) ==
    IF rows = << >> THEN << >>
    ELSE RowCells(first_row, first_col, Head(rows))
         @@ RowsCells(first_row + 1, first_col, Tail(rows))

Anchor == Txt("Forecast CNC")

AnchorCells(positions) == [pos \in positions |-> Anchor]

\* Header row, date row and data rows, the header in column A.
BodyCells(header_row, dates, rows) ==
    RowCells(header_row, 1, <<Txt("Model"), Txt("Process"), Txt("Vendor")>>)
    @@ RowCells(header_row + 1, 4, dates)
    @@ RowsCells(header_row + 2, 1, rows)

SheetOf(cells) ==
    Sheet(SetMax({ pos[1] : pos \in DOMAIN cells }),
          SetMax({ pos[2] : pos \in DOMAIN cells }),
          cells)

\* Where the anchors are and where the header row is: no anchor, one, the
\* documented two (rows 3 and 11), two in one row, two in one row and a
\* later one, and anchors around row 30.
CncLayouts ==
    { [anchors |-> {}, header_row |-> 2],
      [anchors |-> {<<3, 1>>}, header_row |-> 4],
      [anchors |-> {<<3, 1>>, <<11, 1>>}, header_row |-> 12],
      [anchors |-> {<<3, 1>>, <<3, 2>>}, header_row |-> 4],
      [anchors |-> {<<3, 1>>, <<3, 2>>, <<11, 1>>}, header_row |-> 12],
      [anchors |-> {<<3, 1>>, <<11, 1>>, <<20, 1>>}, header_row |-> 12],
      [anchors |-> {<<29, 1>>}, header_row |-> 30],
      [anchors |-> {<<30, 1>>}, header_row |-> 31],
      [anchors |-> {<<3, 1>>, <<30, 1>>}, header_row |-> 31] }

DocumentedLayout == [anchors |-> {<<3, 1>>, <<11, 1>>}, header_row |-> 12]

DateRows ==
    { <<DateLabel(11, 17), DateLabel(11, 18), DateLabel(12, 10)>>,
      <<DateLabel(1, 15), DateLabel(6, 30), DateLabel(12, 10)>>,
      <<DateLabel(2, 30), DateLabel(13, 5), DateLabel(3, 1)>>,
      <<DateTimeCell(2025, 11, 17), DateLabel(11, 18), DateLabel(11, 19)>>,
      <<DateLabel(11, 17), DateLabel(11, 18)>> }

DocumentedDates == <<DateLabel(11, 17), DateLabel(11, 18), DateLabel(12, 10)>>

\* model cell, process cell, vendor cell, one quantity cell per date column
CncDataRows ==
    { <<Txt("M1"), Txt("CNC"), Blank, Num(120), Txt("-"), Num(7)>>,
      <<Blank, Txt("CNC"), Blank, Num(5), Num(0), Num(-2)>>,
      <<Txt("M2"), Blank, Blank, Num(9), Num(9), Num(9)>>,
      <<Txt("Total"), Txt("CNC"), Blank, Num(125), Txt("1,200"), Num(5)>>,
      <<Txt("Total"), Blank, Blank, Num(125), Num(0), Num(5)>>,
      <<Txt("Sum"), Txt("CNC"), Blank, Txt("abc"), Blank, Num(3)>>,
      <<Num(0), Txt("CNC"), Blank, Num(3), Num(3), Num(3)>>,
      <<Txt(" "), Txt("CNC"), Blank, Num(4), Num(4), Num(4)>>,
      <<Txt("M2"), Txt("CNC"), Blank, Txt("inf"), Num(1), Num(1)>> }

DocumentedRows == << <<Txt("M1"), Txt("CNC"), Blank, Num(120), Txt("-"), Num(7)>> >>

RECURSIVE CncRowSeqs(_)
CncRowSeqs(n) ==
    IF n = 0 THEN { << >> }
    ELSE CncRowSeqs(n - 1) \cup
         { Append(rows, row) : rows \in { r \in CncRowSeqs(n - 1) : Len(r) = n - 1 },
                               row \in CncDataRows }

\* Cells of the first rows that the format check looks for: a marker text
\* and a "week" text at places on both sides of the scanned area.
MarkerTexts == {"Forecast CNC", "Forecast", "CNC"}
MarkerPlaces == {<<1, 1>>, <<5, 19>>, <<6, 1>>, <<1, 20>>}
WeekPlaces == {<<2, 2>>, <<5, 18>>, <<6, 2>>, <<2, 20>>}

TopCells ==
    { << >> }
    \cup { At(p[1], p[2], Txt(text)) : p \in MarkerPlaces, text \in MarkerTexts }
    \cup { At(w[1], w[2], Txt("Week 47")) : w \in WeekPlaces }
    \cup { At(p[1], p[2], Txt(text)) @@ At(w[1], w[2], Txt("Week 47")) :
             p \in MarkerPlaces, text \in MarkerTexts, w \in WeekPlaces }

CncBooks ==
    { SheetOf(AnchorCells(layout.anchors) @@ At(1, 4, Txt("Week 47"))
              @@ BodyCells(layout.header_row, DocumentedDates, DocumentedRows)) :
         layout \in CncLayouts }
    \cup
    { SheetOf(AnchorCells(DocumentedLayout.anchors) @@ At(1, 4, Txt("Week 47"))
              @@ BodyCells(DocumentedLayout.header_row, dates, DocumentedRows)) :
         dates \in DateRows }
    \cup
    { SheetOf(AnchorCells(DocumentedLayout.anchors) @@ At(1, 4, Txt("Week 47"))
              @@ BodyCells(DocumentedLayout.header_row, DocumentedDates, rows)) :
         rows \in CncRowSeqs(MaxCncRows) }
    \cup
    { SheetOf(top @@ BodyCells(8, DocumentedDates, DocumentedRows)) : top \in TopCells }
    \cup
    { UnreadableBook }

-----------------------------------------------------------------------------
(* The fixed-layout functions called on their own, one call per workbook *)

CurrentYear == 2026
Months == 1..12

IsCncForecastFormatCall ==
    /\ results = NoResults
    /\ results' = [op |-> "is_cnc_forecast_format",
                   value |-> IsCncForecastFormatOfSheet(book)]
    /\ UNCHANGED <<templates, usages, metrics, sessions, book, book2, snapshots>>
    /\ UNCHANGED reqVars

\* parse_cnc_forecast when the current month is current_month.  The values
\* of its local variables are kept with what it returns.
ParseCncForecastCall(current_month) ==
    /\ results = NoResults
    /\ \E now \in { [year |-> CurrentYear, month |-> current_month] },
          parsed \in { ParseCncForecastOfSheet(book,
                          [year |-> CurrentYear, month |-> current_month]) } :
           results' =
             IF ~book.readable
             THEN [op |-> "parse_cnc_forecast", raised |-> TRUE, now |-> now]
             ELSE [op |-> "parse_cnc_forecast",
                   raised |-> parsed.raised,
                   now |-> now,
                   forecast_rows |-> ForecastRows(book),
                   data_section_start |-> DataSectionStart(book),
                   date_row |-> DateRow(book),
                   model_col |-> ModelHeader(book).col,
                   date_columns |-> [col \in DateColumnsOfCnc(book) |->
                                       PeriodOf(Cell(book, DateRow(book), col),
                                                now.year, now.month)],
                   models |-> parsed.models,
                   emitted |-> parsed.emitted,
                   data |-> parsed.data,
                   confidence |-> CncConfidence]
    /\ UNCHANGED <<templates, usages, metrics, sessions, book, book2, snapshots>>
    /\ UNCHANGED reqVars

InitCnc ==
    /\ templates = << >>
    /\ usages = << >>
    /\ metrics = NoMetrics
    /\ pc = "idle"
    /\ file = NoDocument
    /\ calls = << >>
    /\ matched_template = 0
    /\ match_score = 0
    /\ data = << >>
    /\ analysis_result = NoAnalysis
    /\ response = NoResponse
    /\ started = NotStarted
    /\ uploads = 0
    /\ sessions = NoSessions
    /\ book \in CncBooks
    /\ book2 = NoBook
    /\ results = NoResults
    /\ snapshots = NoSnapshots

NextCnc ==
    \/ IsCncForecastFormatCall
    \/ \E current_month \in Months : ParseCncForecastCall(current_month)

SpecCnc == InitCnc /\ [][NextCnc]_vars

-----------------------------------------------------------------------------
(* save_forecast and the forecast_snapshots table *)

\* Dates are day numbers.  A request holds at most MaxItems items and at
\* most MaxSaves requests are served.
MaxItems == 2
MaxSaves == 2
SaveDays == {2, 3}
ForecastDates == {1, 3}
SaveModels == {"M1"}
SaveProcesses == {"CNC", "absent"}
SaveQuantities == {5, 7}

\* The price master as loaded into the cache; no price is -1.
PriceCache == <<[model |-> "M1", process |-> "CNC", unit_price |-> 3]>>
NoPrice == 0 - 1

MakeKey(model, process) == <<model, process>>

GetPrice(model, process) ==
    LET keyed == {i \in DOMAIN PriceCache :
                    MakeKey(PriceCache[i].model, PriceCache[i].process)
                      = MakeKey(model, process)}
        ofModel == {i \in DOMAIN PriceCache : PriceCache[i].model = model}
        first(s) == CHOOSE i \in s : \A j \in s : i <= j
    IN  IF keyed # {} THEN PriceCache[first(keyed)].unit_price
        ELSE IF process = "" /\ ofModel # {}
             THEN PriceCache[first(ofModel)].unit_price
             ELSE NoPrice

ForecastSaveItem(model, forecast_date, process, quantity) ==
    [model |-> model, forecast_date |-> forecast_date,
     process |-> process, quantity |-> quantity]

ForecastSnapshot(upload_date, forecast_date, model, process, quantity, revenue) ==
    [upload_date |-> upload_date, forecast_date |-> forecast_date,
     model |-> model, process |-> process,
     quantity |-> quantity, revenue |-> revenue]

\* The query for a row of the same day and key: the first row of the table
\* that matches, 0 when none does.  The session does not flush before a
\* query, so rows added earlier in the same request are not in the table yet.
ExistingSnapshot(table, today, item) ==
    LET hits == {i \in DOMAIN table :
                   /\ table[i].upload_date = today
                   /\ table[i].forecast_date = item.forecast_date
                   /\ table[i].model = item.model
                   /\ table[i].process = item.process}
    IN  IF hits = {} THEN 0 ELSE CHOOSE i \in hits : \A j \in hits : i <= j

RevenueOf(item) ==
    LET price == GetPrice(item.model,
                          IF item.process = "absent" THEN "" ELSE item.process)
        unit_price == IF price = NoPrice THEN 0 ELSE price
    IN  unit_price * item.quantity

\* The loop over the items of one request, from item i on.  run holds the
\* table as the session sees it, the rows added and not yet written, and the
\* three counters.
RECURSIVE SaveItems(_, _, _, _)
SaveItems(items, i, today, run) ==
    IF i > Len(items) THEN run
    ELSE LET item == items[i]
             existing == ExistingSnapshot(run.table, today, item)
         IN  IF item.forecast_date < today
             THEN SaveItems(items, i + 1, today,
                            [run EXCEPT !.skipped_count = @ + 1])
             ELSE IF existing # 0
             THEN SaveItems(items, i + 1, today,
                            [run EXCEPT
                               !.table[existing].quantity = item.quantity,
                               !.table[existing].revenue = RevenueOf(item),
                               !.updated_count = @ + 1])
             ELSE SaveItems(items, i + 1, today,
                            [run EXCEPT
                               !.added = Append(@,
                                   ForecastSnapshot(today, item.forecast_date,
                                                    item.model, item.process,
                                                    item.quantity,
                                                    RevenueOf(item))),
                               !.created_count = @ + 1])

ForecastSaveResponse(created, updated, skipped) ==
    [success |-> TRUE, created_count |-> created, updated_count |-> updated,
     total_count |-> created + updated, skipped_count |-> skipped]

SaveItemSet ==
    {ForecastSaveItem(m, d, p, q) :
       m \in SaveModels, d \in ForecastDates, p \in SaveProcesses,
       q \in SaveQuantities}

SaveRequests ==
    UNION {[1..n -> SaveItemSet] : n \in 0..MaxItems}

SavesServed == IF results.op = "save_forecast" THEN results.requests ELSE 0
LastSaveDay == IF results.op = "save_forecast" THEN results.today ELSE 0

\* One save_forecast request served on day today: the loop, the commit that
\* writes the added rows, and the response.
SaveForecast(items, today) ==
    /\ results.op \in {"none", "save_forecast"}
    /\ SavesServed < MaxSaves
    /\ today >= LastSaveDay
    /\ LET run == SaveItems(items, 1, today,
                            [table |-> snapshots, added |-> << >>,
                             created_count |-> 0, updated_count |-> 0,
                             skipped_count |-> 0])
       IN  /\ snapshots' = run.table \o run.added
           /\ results' = [op |-> "save_forecast",
                          requests |-> SavesServed + 1,
                          today |-> today,
                          items |-> items,
                          response |-> ForecastSaveResponse(run.created_count,
                                                            run.updated_count,
                                                            run.skipped_count)]
    /\ UNCHANGED <<templates, usages, metrics, sessions, book, book2>>
    /\ UNCHANGED reqVars

InitSave ==
    /\ templates = << >>
    /\ usages = << >>
    /\ metrics = NoMetrics
    /\ pc = "idle"
    /\ file = NoDocument
    /\ calls = << >>
    /\ matched_template = 0
    /\ match_score = 0
    /\ data = << >>
    /\ analysis_result = NoAnalysis
    /\ response = NoResponse
    /\ started = NotStarted
    /\ uploads = 0
    /\ SideIdle

NextSave ==
    \E items \in SaveRequests, today \in SaveDays : SaveForecast(items, today)

SpecSave == InitSave /\ [][NextSave]_vars

-----------------------------------------------------------------------------
(* Properties of upload_forecast, checked under Spec *)

Called(name) == \E i \in 1..Len(calls) : calls[i] = name

Finished == pc \in {"done", "failed", "crashed"}

InRequest == pc \in {"fixed_format", "template_match", "template_direct",
                     "template_verify", "full_analysis", "done", "failed", "crashed"}

MetricsAfterOne(m, hits, llm, cost) ==
    [present |-> TRUE,
     total_uploads |-> m.total_uploads + 1,
     template_hits |-> m.template_hits + hits,
     llm_calls |-> m.llm_calls + llm,
     api_cost_saved |-> m.api_cost_saved + cost]

NoMatchingOrExternalCall ==
    /\ ~Called("find_matching_template")
    /\ ~Called("verify_template_result")
    /\ ~Called("analyze_excel_image")

\* C1 as stated: for every uploaded document that is_cnc_forecast_format
\* accepts, the request never invokes find_matching_template,
\* verify_template_result or analyze_excel_image, whatever parse_cnc_forecast
\* does.
C1_ShortCircuitWhateverParseDoes ==
    (InRequest /\ IsCncForecastFormat(file)) => NoMatchingOrExternalCall

\* C1 amended: for every uploaded document that is_cnc_forecast_format accepts
\* and on which parse_cnc_forecast does not raise, the request ends in the
\* fixed-format stage with a successful outcome and never invokes
\* find_matching_template, verify_template_result or analyze_excel_image.
C1_ShortCircuit ==
    (InRequest /\ IsCncForecastFormat(file) /\ ~ParseCncForecast(file).raised) =>
        /\ NoMatchingOrExternalCall
        /\ pc \in {"fixed_format", "done"}
        /\ pc = "done" => /\ response.status = "ok"
                          /\ Called("parse_cnc_forecast")

C1_Witness ==
    /\ pc = "done"
    /\ IsCncForecastFormat(file)
    /\ Called("parse_cnc_forecast")
    /\ response.data # << >>
    /\ metrics.template_hits = started.metrics.template_hits + 1

\* C4 as stated: every upload whose matched recipe fails verification lowers
\* that recipe's accuracy through a failed usage event (so that a run of such
\* uploads ends with the recipe deactivated).
C4_FailedVerificationLowersAccuracy ==
    [][ (pc = "template_verify" /\ pc' = "full_analysis") =>
           /\ Len(usages') = Len(usages) + 1
           /\ usages'[Len(usages')].template_id = matched_template
           /\ ~usages'[Len(usages')].was_successful
           /\ templates'[matched_template].accuracy_rate
                 < templates[matched_template].accuracy_rate ]_vars

DirectBranch ==
    /\ pc \in {"template_direct", "done", "crashed"}
    /\ matched_template # 0
    /\ match_score >= HighConfidenceScore

C8_CorrectionsReturned ==
    (pc = "done" /\ Called("verify_template_result")
                 /\ Called("analyze_excel_image") /\ data = CorrectedRecords) =>
        /\ response.data = CorrectedRecords
        /\ response.confidence = AnalysisConfidence(analysis_result)
        /\ response.notes = AnalysisNotes(analysis_result)

-----------------------------------------------------------------------------
(* Properties of the template store *)

UsageRecorded(id) ==
    /\ Len(usages') = Len(usages) + 1
    /\ usages'[Len(usages')].template_id = id

LastUsage == usages[Len(usages)]

\* C2: one record_usage call on a stored recipe with accuracy a leaves the
\* accuracy 0.9a + 0.1 when the usage was successful and 0.9a when it was
\* not, and the accuracy of every recipe stays within [0, 1].
C2_EmaLaw ==
    /\ [](\A id \in DOMAIN templates :
             /\ templates[id].accuracy_rate >= 0
             /\ templates[id].accuracy_rate <= AccScale)
    /\ [][\A id \in DOMAIN templates :
             UsageRecorded(id) =>
                10 * templates'[id].accuracy_rate =
                    9 * templates[id].accuracy_rate
                    + (IF usages'[Len(usages')].was_successful THEN AccScale ELSE 0)]_vars

\* From the creation value 1.0: a failure (0.9), then a success (0.91).
C2_Witness ==
    /\ 1 \in DOMAIN templates
    /\ Len(usages) = 2
    /\ ~usages[1].was_successful /\ usages[1].template_id = 1
    /\ usages[2].was_successful /\ usages[2].template_id = 1
    /\ templates[1].accuracy_rate = 91 * (AccScale \div 100)

\* C3: with the threshold 0.7, a failed usage of a recipe whose accuracy is
\* 0.65 leaves it at 0.585 and inactive; no record_usage call turns an
\* inactive recipe active; a step that turns a stored recipe active is an
\* update_template call with is_active = true.
C3_DeactivationIsOneWay ==
    [][\A id \in DOMAIN templates :
          /\ ( /\ UsageRecorded(id)
               /\ ~usages'[Len(usages')].was_successful
               /\ templates[id].accuracy_rate = 65 * (AccScale \div 100) )
             => ( /\ templates'[id].accuracy_rate = 585 * (AccScale \div 1000)
                  /\ ~templates'[id].is_active )
          /\ (UsageRecorded(id) /\ ~templates[id].is_active)
             => ~templates'[id].is_active
          /\ ( /\ ~templates[id].is_active
               /\ id \in DOMAIN templates'
               /\ templates'[id].is_active )
             => \E name \in OptionalNames, mapping \in OptionalMappings :
                   UpdateTemplateRoute(id, name, mapping, "true")]_vars

\* A recipe at 0.65 has failed once more: 0.585, inactive.
C3_Witness ==
    /\ 1 \in DOMAIN templates
    /\ Len(usages) = 1
    /\ ~LastUsage.was_successful
    /\ templates[1].accuracy_rate = 585 * (AccScale \div 1000)
    /\ ~templates[1].is_active

\* C5: find_matching_template returns no recipe that is not active, and in
\* every step that is not delete_template every stored recipe stays stored,
\* deactivated or not.
C5_InactiveNeverMatchedButKept ==
    /\ []( (pc = "matched" /\ matched_template # 0) =>
              /\ matched_template \in DOMAIN templates
              /\ templates[matched_template].is_active )
    /\ [][ (\A id \in TemplateIds : ~DeleteTemplateRoute(id)) =>
              DOMAIN templates \subseteq DOMAIN templates' ]_vars

\* A recipe that record_usage has disabled carries the document's own
\* signature, and the match went to another, active recipe.
C5_Witness ==
    /\ pc = "matched"
    /\ matched_template # 0
    /\ \E id \in DOMAIN templates :
          /\ templates[id].fingerprint = file.fingerprint
          /\ ~templates[id].is_active
          /\ templates[id].accuracy_rate < AutoDisableThreshold
          /\ id # matched_template

MaxOf(S) == IF S = {} THEN 0 ELSE SetMax(S)

ActiveScores(fingerprint) ==
    { CalculateSimilarity(fingerprint, templates[id].fingerprint) :
         id \in {i \in DOMAIN templates : templates[i].is_active} }

\* C6: find_matching_template returns (r, 100) for an active recipe r with
\* the document's signature; otherwise an active recipe of maximal similarity
\* with that similarity as score when the maximum is at least 70; otherwise
\* (none, 0).
C6_MatchResult ==
    pc = "matched" =>
        LET fp == file.fingerprint
            active == {i \in DOMAIN templates : templates[i].is_active}
            best == MaxOf(ActiveScores(fp))
        IN  IF \E id \in active : templates[id].fingerprint = fp
            THEN /\ matched_template \in active
                 /\ templates[matched_template].fingerprint = fp
                 /\ match_score = 10000
            ELSE IF best >= 7000
            THEN /\ matched_template \in active
                 /\ CalculateSimilarity(fp, templates[matched_template].fingerprint) = best
                 /\ match_score = best
            ELSE /\ matched_template = 0
                 /\ match_score = 0

\* Two active recipes, neither with the document's signature; the second
\* row scores higher and is returned.
C6_Witness ==
    /\ pc = "matched"
    /\ Cardinality({i \in DOMAIN templates : templates[i].is_active}) = 2
    /\ matched_template = 2
    /\ match_score = 7500
    /\ CalculateSimilarity(file.fingerprint, templates[1].fingerprint) < 7000

-----------------------------------------------------------------------------
(* Failure handling and bookkeeping of upload_forecast, checked under Spec *)

VerifyBranch ==
    /\ InRequest
    /\ file.readable
    /\ matched_template # 0
    /\ match_score >= MinConfidenceScore
    /\ match_score < HighConfidenceScore

\* C11 as stated: for a readable document matched with 70 <= score < 90, a
\* failure of the mapping-driven extraction or of the verification call does
\* not end the request: a finished request has either returned an outcome or
\* gone through the full analysis.
C11_VerifyFailureFallsThrough ==
    (VerifyBranch /\ Finished) =>
        \/ response.status = "ok"
        \/ Called("analyze_excel_image")

\* C12 as stated: whatever malformed text the external capability returns
\* (no JSON, JSON that is no object, an object with malformed records),
\* analyze_excel_image and the construction of the response end in a returned
\* outcome with confidence 0.0 and no records.
C12_MalformedReplyIsStageFailure ==
    \A reply \in MalformedReplies :
       ( /\ InRequest
         /\ Called("analyze_excel_image")
         /\ analysis_result = AnalyzeExcelImage(reply) )
       => ( /\ pc = "done"
            /\ response.status = "ok"
            /\ response.confidence = 0
            /\ response.data = << >> )

\* C14 as stated: the day's total_uploads counts exactly the requests that
\* returned an outcome: a step raises it by one when it returns an outcome
\* and leaves it alone otherwise.
C14_MetricsCountReturnedUploads ==
    [][ metrics'.total_uploads =
           metrics.total_uploads + (IF pc # "done" /\ pc' = "done" THEN 1 ELSE 0) ]_vars

\* C15 as stated: a request that ran parse_with_mapping against the matched
\* recipe and returned has appended exactly one usage event for that recipe,
\* successful when the mapping result was returned and failed when it was
\* discarded.
C15_OneUsagePerExtraction ==
    (pc = "done" /\ Called("parse_with_mapping")) =>
        /\ Len(usages) = started.usages + 1
        /\ usages[Len(usages)].template_id = matched_template
        /\ usages[Len(usages)].was_successful = response.template_matched

\* C20 as stated: every record of every returned outcome has a strictly
\* positive quantity.
C20_ReturnedQuantitiesPositive ==
    (pc = "done" /\ response.status = "ok") =>
        \A i \in 1..Len(response.data) : response.data[i].quantity > 0

-----------------------------------------------------------------------------
(* Concurrent callers of record_usage, checked under SpecRace *)

\* C13 as stated: when each of the N sessions has called record_usage once on
\* the same recipe, in whatever order their read, modify and commit steps
\* were taken, the recipe's use_count is N higher than before (it was 0) and
\* equals the number of usage events appended for it.
C13_NoLostIncrement ==
    (\A s \in Sessions : sessions[s].pc = "committed") =>
        /\ templates[RaceRecipe].use_count = MaxSessions
        /\ templates[RaceRecipe].use_count = Len(usages)

-----------------------------------------------------------------------------
(* Signatures, similarity and mapping-driven extraction on grids, checked   *)
(* under SpecSheet                                                          *)

\* C16 as stated: two runs of generate_fingerprint on the same document
\* return the same signature, in whatever order the keyword set is
\* enumerated.
C16_SameDocumentSameSignature ==
    results.op = "generate_fingerprint" => results.first = results.again

\* D' is D with rows appended, and both row counts fall in the same bucket.
GrownWithinBucket ==
    /\ Len(book2) > Len(book)
    /\ \A r \in 1..Len(book) : book2[r] = book[r]
    /\ \A r \in (Len(book) + 1)..Len(book2) : book2[r] \in {BlankRow, RepeatRow}
    /\ GetRangeBucket(Len(book2)) = GetRangeBucket(Len(book))

\* C17 as stated: a document and the document grown by blank or
\* pattern-repeating rows within the same row-count bucket have the same
\* signature, also when the document has fewer than 10 rows.
C17_GrowthWithinBucketKeepsSignature ==
    (results.op = "generate_fingerprint" /\ GrownWithinBucket) =>
        results.first = results.other

\* C18: calculate_similarity returns a value in [0, 100] on every path (equal
\* signatures, detailed comparison, failure inside the detailed comparison,
\* positional comparison) and exactly 100 when the two signatures are equal.
C18_SimilarityRange ==
    results.op = "calculate_similarity" =>
        /\ results.value >= 0
        /\ results.value <= 10000
        /\ results.f1 = results.f2 => results.value = 10000

\* The detailed comparison of workbooks more than 20 rows apart: the
\* structure score is cut off at 0.
C18_Witness ==
    /\ results.op = "calculate_similarity"
    /\ results.path = "detailed"
    /\ results.row_diff > 20
    /\ results.value = 1000

\* The planted triples with a strictly positive quantity, row by row and
\* within a row by date column; k runs over the cells in that order.
RECURSIVE PlantedPositive(_, _, _)
PlantedPositive(sheet, mapping, k) ==
    IF k >= 3 * Len(sheet) THEN << >>
    ELSE LET r == (k \div 3) + 1
             c == (k % 3) + 1
             cell == sheet[r][c]
         IN  IF /\ r >= mapping.model_start_row
                /\ r \notin mapping.skip_rows
                /\ IsText(sheet[r][1])
                /\ c >= 2
                /\ IsText(sheet[1][c])
                /\ cell.kind = "number"
                /\ cell.n > 0
             THEN <<Record(sheet[r][1].kind, "absent", sheet[1][c].kind, cell.n)>>
                  \o PlantedPositive(sheet, mapping, k + 1)
             ELSE PlantedPositive(sheet, mapping, k + 1)

\* C19 as stated: parse_with_mapping returns exactly the planted triples
\* whose quantity is strictly positive, ordered by row and then by date
\* column, and nothing for a zero or negative quantity, a row in skip_rows or
\* a row without a model.
C19_PlantedPositiveTriples ==
    results.op = "parse_with_mapping" =>
        results.value = PlantedPositive(book, results.mapping, 0)

-----------------------------------------------------------------------------
(* Properties of the fixed-layout parser, checked under SpecCnc *)

Parsed == results.op = "parse_cnc_forecast" /\ book.readable

\* The cells of the first 30 rows whose text contains both "forecast" and
\* "cnc", whatever their column.
AnchorsOf(sheet) ==
    { pos \in DOMAIN sheet.cells :
         /\ pos[1] <= 30
         /\ CellHas(sheet.cells[pos], "forecast")
         /\ CellHas(sheet.cells[pos], "cnc") }

\* Row by row, left to right
Before(p, q) == p[1] < q[1] \/ (p[1] = q[1] /\ p[2] < q[2])

NthAnchor(sheet, n) ==
    CHOOSE pos \in AnchorsOf(sheet) :
        Cardinality({ q \in AnchorsOf(sheet) : Before(q, pos) }) = n - 1

\* C21: the data section starts at the row of the second anchor when there
\* are at least two anchors in the first 30 rows, at the row of the only
\* anchor when there is one, and at row 1 when there is none.
C21_DataSectionStartsAtAnchor ==
    Parsed =>
        results.data_section_start =
            IF Cardinality(AnchorsOf(book)) >= 2 THEN NthAnchor(book, 2)[1]
            ELSE IF Cardinality(AnchorsOf(book)) = 1 THEN NthAnchor(book, 1)[1]
            ELSE 1

IsLeap(year) == (year % 4 = 0 /\ year % 100 # 0) \/ year % 400 = 0

DaysIn(year, month) ==
    IF month = 2 THEN (IF IsLeap(year) THEN 29 ELSE 28)
    ELSE IF month \in {4, 6, 9, 11} THEN 30
    ELSE 31

ValidDate(period) ==
    /\ period.month \in 1..12
    /\ period.day \in 1..DaysIn(period.year, period.month)

LabelColumns ==
    { col \in DOMAIN results.date_columns :
         Cell(book, results.date_row, col).kind = "MM/DD" }

\* C22: a column labelled MM/DD with month m, read in month c, gets the
\* current year when m >= c - 1 and the next year otherwise, and its period
\* is a date of the calendar.
C22_LabelYearAndValidDate ==
    Parsed =>
        \A col \in LabelColumns :
            LET m == Cell(book, results.date_row, col).n \div 100
                period == results.date_columns[col]
            IN  /\ period.year = IF m >= results.now.month - 1
                                  THEN results.now.year
                                  ELSE results.now.year + 1
                /\ ValidDate(period)

\* The cells of rows 1..6, columns 1..20
FirstRowsCells(sheet) ==
    { pos \in DOMAIN sheet.cells : pos[1] <= 6 /\ pos[2] <= 20 }

\* C25: the format check answers true exactly when a cell of the first 6
\* rows and 20 columns contains both "forecast" and "cnc" and a cell of those
\* rows contains "week"; it answers false for a workbook it cannot read; and
\* a workbook it accepts has an anchor for the parser.
C25_DetectionNeedsBothMarkers ==
    /\ results.op = "is_cnc_forecast_format" =>
          results.value =
             /\ book.readable
             /\ \E pos \in FirstRowsCells(book) :
                    /\ CellHas(book.cells[pos], "forecast")
                    /\ CellHas(book.cells[pos], "cnc")
             /\ \E pos \in FirstRowsCells(book) : CellHas(book.cells[pos], "week")
    /\ (Parsed /\ IsCncForecastFormatOfSheet(book)) => Len(results.forecast_rows) >= 1

DataRowOf(i) == results.date_row + i

ModelCell(i) == Cell(book, DataRowOf(i), results.model_col)
ProcessCell(i) == Cell(book, DataRowOf(i), results.model_col + 1)

\* The stripped text of a model cell (the only number in a model cell is 0)
TextOf(cell) ==
    IF cell.kind = "number" THEN "0"
    ELSE IF cell.kind \in {"empty", " "} THEN ""
    ELSE cell.kind

NonEmpty(cell) == cell.kind # "empty"
HoldsValue(cell) == cell.kind # "empty" /\ cell # Num(0)

\* The data rows up to row i whose model cell names a model
NamingRows(i) ==
    { j \in 1..i : NonEmpty(ModelCell(j)) /\ ~HasSkipKeyword(ModelCell(j)) }

NamingRowsButZero(i) ==
    { j \in 1..i : HoldsValue(ModelCell(j)) /\ ~HasSkipKeyword(ModelCell(j)) }

ParsedToEnd == Parsed /\ ~results.raised

\* C26 as stated: after each data row the current model is the text of the
\* most recent non-empty model cell without a skip keyword, and a row with
\* an empty process cell emits no record.
C26_CarriesLastNonEmptyModel ==
    ParsedToEnd =>
        \A i \in 1..Len(results.models) :
            /\ results.models[i] =
                  IF NamingRows(i) = {} THEN ""
                  ELSE TextOf(ModelCell(SetMax(NamingRows(i))))
            /\ ~NonEmpty(ProcessCell(i)) => results.emitted[i] = << >>

\* C26 as amended: a model cell holding the number 0 counts as blank.
C26_CarriesLastModelButZero ==
    ParsedToEnd =>
        \A i \in 1..Len(results.models) :
            /\ results.models[i] =
                  IF NamingRowsButZero(i) = {} THEN ""
                  ELSE TextOf(ModelCell(SetMax(NamingRowsButZero(i))))
            /\ ~NonEmpty(ProcessCell(i)) => results.emitted[i] = << >>

\* A model, a blank model cell that carries it, and the model carried over a
\* total row that has no process.
C26_Witness ==
    /\ ParsedToEnd
    /\ results.data_section_start = 11
    /\ \E i \in 2..Len(results.models) :
          /\ results.models[i - 1] = "M1"
          /\ results.models[i] = "M1"
          /\ results.emitted[i - 1] # << >>
          /\ HasSkipKeyword(ModelCell(i))
          /\ ~NonEmpty(ProcessCell(i))
          /\ results.emitted[i] = << >>

\* C29: a row whose model cell contains a skip keyword emits no record, and
\* no emitted record names a model that contains a skip keyword.
C29_NoRecordFromTotalRows ==
    ParsedToEnd =>
        /\ \A i \in 1..Len(results.models) :
               HasSkipKeyword(ModelCell(i)) => results.emitted[i] = << >>
        /\ \A k \in 1..Len(results.data) :
               TokensOf(results.data[k].model) \cap SkipKeywords = {}

-----------------------------------------------------------------------------
(* Properties of the template store, checked under SpecLaw and SpecStore *)

\* C23: record_usage, update_template, activate and deactivate leave the
\* signature of every recipe as it was, and record_usage also leaves its
\* name and mapping as they were.
C23_SignatureNeverChanges ==
    [][\A id \in DOMAIN templates \cap DOMAIN templates' :
          /\ templates'[id].fingerprint = templates[id].fingerprint
          /\ UsageRecorded(id) =>
                /\ templates'[id].name = templates[id].name
                /\ templates'[id].mapping = templates[id].mapping]_vars

\* A recipe that has been renamed, given another mapping, used and switched
\* off still has the signature it was created with.
C23_Witness ==
    /\ 1 \in DOMAIN templates
    /\ templates[1].name = "renamed"
    /\ templates[1].mapping = "malformed"
    /\ templates[1].use_count >= 2
    /\ ~templates[1].is_active
    /\ templates[1].fingerprint = Fp(0)

-----------------------------------------------------------------------------
(* Further properties of upload_forecast, checked under Spec *)

\* C24: an upload that ends without records is answered with confidence 0.0
\* and notes that say why, also when the analysis is the stage that fails;
\* no answer without records has a positive confidence.
C24_NoRecordsMeansZeroConfidence ==
    /\ (pc = "done" /\ response.data = << >>) =>
          /\ response.confidence = 0
          /\ response.notes \notin {"absent", ""}
    /\ ~(pc = "crashed" /\ Called("analyze_excel_image"))

\* C28: no two stored recipes, active or not, have the same signature, and
\* creating a recipe from a document whose signature is stored already, also
\* by a recipe that was switched off, fails and stores nothing.
C28_SignaturesAreUnique ==
    /\ [](\A i, j \in DOMAIN templates :
             templates[i].fingerprint = templates[j].fingerprint => i = j)
    /\ [][(pc = "idle" /\ pc' = "created") =>
             IF \E id \in DOMAIN templates :
                   templates[id].fingerprint = file'.fingerprint
             THEN templates' = templates /\ response'.status = "http500"
             ELSE /\ Cardinality(DOMAIN templates') = Cardinality(DOMAIN templates) + 1
                  /\ response'.status = "ok"]_vars

\* The signature of a recipe that was switched off for its accuracy has been
\* offered again.
C28_Witness ==
    /\ pc = "created"
    /\ response.status = "http500"
    /\ \E id \in DOMAIN templates :
          /\ templates[id].fingerprint = file.fingerprint
          /\ templates[id].accuracy_rate < AutoDisableThreshold
          /\ ~templates[id].is_active
    /\ Cardinality(DOMAIN templates) = 1

\* C27 as stated: right after record_usage a recipe is active only if its
\* accuracy is at least 0.7, and a recipe whose accuracy was below 0.7 is
\* inactive after the usage, successful or not.
C27_BelowThresholdAlwaysDeactivated ==
    [][\A id \in DOMAIN templates :
          UsageRecorded(id) =>
             /\ templates'[id].is_active =>
                   templates'[id].accuracy_rate >= AutoDisableThreshold
             /\ templates[id].accuracy_rate < AutoDisableThreshold =>
                   ~templates'[id].is_active]_vars

\* C27 as amended: right after record_usage a recipe is active only if its
\* accuracy is at least 0.7; a recipe whose accuracy was below 0.7 is inactive
\* after the usage unless the usage has lifted the accuracy to 0.7 or more.
C27_ActiveOnlyAtOrAboveThreshold ==
    [][\A id \in DOMAIN templates :
          UsageRecorded(id) =>
             /\ templates'[id].is_active =>
                   templates'[id].accuracy_rate >= AutoDisableThreshold
             /\ ( /\ templates[id].accuracy_rate < AutoDisableThreshold
                  /\ templates'[id].accuracy_rate < AutoDisableThreshold )
                => ~templates'[id].is_active]_vars

\* A recipe at 0.60 has had a successful usage: 0.64, inactive.
C27_Witness ==
    /\ 1 \in DOMAIN templates
    /\ Len(usages) = 1
    /\ LastUsage.was_successful
    /\ templates[1].accuracy_rate = 64 * (AccScale \div 100)
    /\ ~templates[1].is_active

-----------------------------------------------------------------------------
(* Properties of save_forecast, checked under SpecSave *)

SameKey(a, b) ==
    /\ a.upload_date = b.upload_date
    /\ a.forecast_date = b.forecast_date
    /\ a.model = b.model
    /\ a.process = b.process

OneSnapshotPerKey ==
    \A i, j \in DOMAIN snapshots :
        SameKey(snapshots[i], snapshots[j]) => i = j

PastItems(items, today) ==
    {i \in DOMAIN items : items[i].forecast_date < today}

NoPastSnapshot ==
    \A i \in DOMAIN snapshots :
        snapshots[i].forecast_date >= snapshots[i].upload_date

SaveCountsAddUp ==
    results.op = "save_forecast" =>
        LET r == results.response
        IN  /\ r.skipped_count = Cardinality(PastItems(results.items, results.today))
            /\ r.created_count + r.updated_count + r.skipped_count
                 = Len(results.items)
            /\ r.total_count = r.created_count + r.updated_count

\* C30: after any sequence of save_forecast requests the table holds at most
\* one snapshot per (upload_date, forecast_date, model, process), also when
\* one request names the same key twice; items dated before today are skipped
\* and store nothing; and in each response created + updated + skipped is the
\* number of items and total is created + updated.
C30_OneSnapshotPerKeyAndCounts ==
    /\ OneSnapshotPerKey
    /\ NoPastSnapshot
    /\ SaveCountsAddUp

====
